---- MODULE Spec2Model ----
(***************************************************************************)
(* The negative high-impact event detector of step_neg_check                *)
(* (agents/negative_event_detector.py): a geographic gate, a confirmation   *)
(* gate, an exclusion gate and a weighted keyword scorer over the           *)
(* lower-cased text title + " " + content.                                  *)
(*                                                                         *)
(* Texts are strings, processed character by character.  Scores are kept   *)
(* in tenths (the weights 1.5 .. 3.5 and every sum of them are exact in     *)
(* binary floating point, so the integer sums are the float sums).          *)
(***************************************************************************)
EXTENDS Integers, Sequences, FiniteSets, TLC

(***************************************************************************)
(* Characters.  A TLA+ string holds ASCII only; the character "@" stands   *)
(* for U+0131 LATIN SMALL LETTER DOTLESS I, a lower-case letter that        *)
(* str.lower leaves as it is and whose upper case is the ASCII "I".         *)
(***************************************************************************)
LowerAlpha == "abcdefghijklmnopqrstuvwxyz"
UpperAlpha == "ABCDEFGHIJKLMNOPQRSTUVWXYZ"
DigitChars == "0123456789"
DotlessI == "@"

CharAt(s, i) == SubSeq(s, i, i)

CharsOf(s) == {CharAt(s, i) : i \in 1..Len(s)}

\* str.lower on one character: A-Z to a-z, everything else unchanged
ToLowerTable ==
    "A" :> "a" @@ "B" :> "b" @@ "C" :> "c" @@ "D" :> "d" @@ "E" :> "e" @@
    "F" :> "f" @@ "G" :> "g" @@ "H" :> "h" @@ "I" :> "i" @@ "J" :> "j" @@
    "K" :> "k" @@ "L" :> "l" @@ "M" :> "m" @@ "N" :> "n" @@ "O" :> "o" @@
    "P" :> "p" @@ "Q" :> "q" @@ "R" :> "r" @@ "S" :> "s" @@ "T" :> "t" @@
    "U" :> "u" @@ "V" :> "v" @@ "W" :> "w" @@ "X" :> "x" @@ "Y" :> "y" @@
    "Z" :> "z"

UpperLetters == DOMAIN ToLowerTable

LowerChar(c) == IF c \in UpperLetters THEN ToLowerTable[c] ELSE c

\* character by character, the two halves of s in turn
RECURSIVE LowerFrom(_)
LowerFrom(s) ==
    IF Len(s) = 0 THEN ""
    ELSE IF Len(s) = 1 THEN LowerChar(s)
    ELSE LET half == Len(s) \div 2
         IN  LowerFrom(SubSeq(s, 1, half))
                \o LowerFrom(SubSeq(s, half + 1, Len(s)))

\* str.lower: a string without upper-case letters is its own lower case
Lower(s) ==
    IF \A i \in 1..Len(s) : CharAt(s, i) \notin UpperLetters
    THEN s
    ELSE LowerFrom(s)

\* the indices at which each character of text occurs
StartsOf(text) ==
    [c \in CharsOf(text) |-> {i \in 1..Len(text) : CharAt(text, i) = c}]

\* Python's substring test kw in text, trying only the indices that hold
\* the first character of kw (starts = StartsOf(text))
ContainsAt(text, starts, kw) ==
    \/ kw = ""
    \/ /\ Head(kw) \in DOMAIN starts
       /\ \E i \in starts[Head(kw)] :
              /\ i + Len(kw) - 1 <= Len(text)
              /\ SubSeq(text, i, i + Len(kw) - 1) = kw

(***************************************************************************)
(* The regular-expression engine, as far as the patterns of the detector    *)
(* use it: \b, alternations of literals, \s+ between two alternations, and  *)
(* the negative lookahead of the warning family; re.IGNORECASE.             *)
(***************************************************************************)
\* \w: the letters, the digits and the underscore
WordChars ==
    {"a", "b", "c", "d", "e", "f", "g", "h", "i", "j", "k", "l", "m", "n",
     "o", "p", "q", "r", "s", "t", "u", "v", "w", "x", "y", "z", "A", "B",
     "C", "D", "E", "F", "G", "H", "I", "J", "K", "L", "M", "N", "O", "P",
     "Q", "R", "S", "T", "U", "V", "W", "X", "Y", "Z", "0", "1", "2", "3",
     "4", "5", "6", "7", "8", "9", "_", "@"}

SpaceChars == {" ", "\n", "\t", "\r"}

\* \w at index i of text (FALSE outside the text)
IsWordAt(text, i) ==
    /\ i >= 1
    /\ i <= Len(text)
    /\ CharAt(text, i) \in WordChars

\* \b between the characters i-1 and i
WordBoundary(text, i) == IsWordAt(text, i - 1) # IsWordAt(text, i)

\* re.IGNORECASE: a pattern letter matches both of its cases, and the
\* pattern letter i also matches the dotless i
RegexFoldChar(c) == IF c = DotlessI THEN "i" ELSE LowerChar(c)

\* the characters that RegexFoldChar changes
RegexFolded == UpperLetters \cup {DotlessI}

RECURSIVE RegexFoldFrom(_)
RegexFoldFrom(s) ==
    IF Len(s) = 0 THEN ""
    ELSE IF Len(s) = 1 THEN RegexFoldChar(s)
    ELSE LET half == Len(s) \div 2
         IN  RegexFoldFrom(SubSeq(s, 1, half))
                \o RegexFoldFrom(SubSeq(s, half + 1, Len(s)))

RegexFold(s) ==
    IF \A i \in 1..Len(s) : CharAt(s, i) \notin RegexFolded
    THEN s
    ELSE RegexFoldFrom(s)

\* the literal lit at index i of the folded text
LiteralAt(ftext, i, lit) ==
    /\ i + Len(lit) - 1 <= Len(ftext)
    /\ SubSeq(ftext, i, i + Len(lit) - 1) = lit

\* length of the run of \s characters that starts at index i
RECURSIVE SpaceRun(_, _)
SpaceRun(ftext, i) ==
    IF i <= Len(ftext) /\ CharAt(ftext, i) \in SpaceChars
    THEN 1 + SpaceRun(ftext, i + 1)
    ELSE 0

\* (a1|a2|...) at index i: the end indices (index after the match) of the
\* alternatives that match, in the order the engine tries them
RECURSIVE AltEnds(_, _, _, _)
AltEnds(alts, k, ftext, i) ==
    IF k > Len(alts) THEN <<>>
    ELSE (IF LiteralAt(ftext, i, alts[k]) THEN <<i + Len(alts[k])>> ELSE <<>>)
            \o AltEnds(alts, k + 1, ftext, i)

\* \s+(b1|b2|...) from index e: greedy, giving back one space at a time
RECURSIVE SpaceThenAltEnds(_, _, _, _)
SpaceThenAltEnds(alts, ftext, e, n) ==
    IF n < 1 THEN <<>>
    ELSE AltEnds(alts, 1, ftext, e + n)
            \o SpaceThenAltEnds(alts, ftext, e, n - 1)

RECURSIVE SecondGroupEnds(_, _, _, _)
SecondGroupEnds(alts, ftext, firstEnds, k) ==
    IF k > Len(firstEnds) THEN <<>>
    ELSE SpaceThenAltEnds(alts, ftext, firstEnds[k],
                          SpaceRun(ftext, firstEnds[k]))
            \o SecondGroupEnds(alts, ftext, firstEnds, k + 1)

\* (?!\s+(of\s+)?(w1|w2|...)) at index e; TRUE when the lookahead lets the
\* match stand.  A pattern without lookahead has ahead = <<>>.
\* variant: the lookahead without the optional "of"
LookaheadOk_without_of(ahead, ftext, e) ==
    \/ ahead = <<>>
    \/ ~ \E n \in 1..SpaceRun(ftext, e) :
            AltEnds(ahead, 1, ftext, e + n) # <<>>

LookaheadOk(ahead, ftext, e) ==
    \/ ahead = <<>>
    \/ ~ \E n \in 1..SpaceRun(ftext, e) :
            \/ AltEnds(ahead, 1, ftext, e + n) # <<>>
            \/ /\ LiteralAt(ftext, e + n, "of")
               /\ \E n2 \in 1..SpaceRun(ftext, e + n + 2) :
                      AltEnds(ahead, 1, ftext, e + n + 2 + n2) # <<>>

\* A pattern \b(first)\b, \b(first)\s+(second)\b or \b(first)\b(?!...) is
\* the record [first, second, ahead, heads]; second = <<>> when there is one
\* group, and heads holds the first characters of the alternatives of first.
\* MatchEnd is the end index of the match that starts at index i, 0 if none
\* (none when no alternative begins with the character at i).
MatchEnd(pat, ftext, i) ==
    IF CharAt(ftext, i) \notin pat.heads \/ ~WordBoundary(ftext, i) THEN 0
    ELSE LET firstEnds == AltEnds(pat.first, 1, ftext, i)
             ends == IF pat.second = <<>> THEN firstEnds
                     ELSE SecondGroupEnds(pat.second, ftext, firstEnds, 1)
             ok == {k \in 1..Len(ends) :
                       /\ WordBoundary(ftext, ends[k])
                       /\ LookaheadOk(pat.ahead, ftext, ends[k])}
         IN  IF ok = {} THEN 0
             ELSE ends[CHOOSE k \in ok : \A j \in ok : k <= j]

\* re.search(pattern, text, re.IGNORECASE) is not None, for
\* ftext = RegexFold(text)
Search(pat, ftext) ==
    \E i \in 1..Len(ftext) : MatchEnd(pat, ftext, i) > 0

\* len(re.findall(pattern, text, re.IGNORECASE)) for ftext = RegexFold(text):
\* the engine scans from the left, and after a match goes on at its end
\* index, so it takes the leftmost match start at or after index i and
\* repeats from that match's end
RECURSIVE CountFrom(_, _, _, _)
CountFrom(pat, ftext, matchStarts, i) ==
    LET rest == {j \in matchStarts : j >= i}
    IN  IF rest = {} THEN 0
        ELSE LET j == CHOOSE m \in rest : \A m2 \in rest : m <= m2
             IN  1 + CountFrom(pat, ftext, matchStarts,
                               MatchEnd(pat, ftext, j))

FindAllCount(pat, ftext) ==
    LET matchStarts == {i \in 1..Len(ftext) : MatchEnd(pat, ftext, i) > 0}
    IN  CountFrom(pat, ftext, matchStarts, 1)

Pattern(first, second, ahead) ==
    [first |-> first, second |-> second, ahead |-> ahead,
     heads |-> {Head(first[k]) : k \in 1..Len(first)}]

\* variant: the list also holds an empty entry
TARGET_COUNTRIES_with_empty ==
    {"", "indonesia", "china", "vietnam", "cambodia", "laos", "indonesian",
     "chinese", "vietnamese", "cambodian", "laotian", "jakarta", "beijing",
     "hanoi", "phnom penh", "vientiane"}

TARGET_COUNTRIES ==
    {"indonesia", "china", "vietnam", "cambodia", "laos", "indonesian",
     "chinese", "vietnamese", "cambodian", "laotian", "jakarta", "beijing",
     "hanoi", "phnom penh", "vientiane"}

CRITERIA_KEYWORDS == <<
    [criterion |-> "production_disruption",
     keywords |-> <<
        "factory shutdown", "factory shutdowns", "plant closure",
        "production halt", "manufacturing disruption",
        "supply chain disruption", "port closure", "port shutdown",
        "port closed", "shipping disruption", "shipping halted",
        "logistics disruption", "airport closure", "energy crisis",
        "power outage", "blackout", "labor strike", "worker strike",
        "mass strike", "industrial action", "work stoppage", "factory fire",
        "explosion at", "production suspended", "operations halted",
        "supply shortage", "supply cut", "disruption confirmed",
        "shutdown confirmed", "strike began", "workers' strike",
        "announced shutdowns" >>,
     weight |-> 30],
    [criterion |-> "corporate_distress",
     keywords |-> <<
        "bankruptcy", "bankrupt", "default", "defaults on", "insolvency",
        "insolvent", "debt restructuring", "credit downgrade",
        "rating downgrade", "downgraded to", "liquidity crisis",
        "cash crisis", "unable to pay", "filed for bankruptcy", "chapter 11",
        "creditors meeting", "debt default confirmed",
        "restructuring confirmed" >>,
     weight |-> 30],
    [criterion |-> "sovereign_stress",
     keywords |-> <<
        "sovereign default", "sovereign downgrade", "country downgrade",
        "national default", "imf bailout", "imf program", "imf loan",
        "emergency bailout", "capital controls", "capital flight",
        "bank run", "banking crisis", "bank collapse", "interbank freeze",
        "financial system collapse", "currency crisis",
        "currency devaluation", "foreign reserves depleted",
        "sovereign debt crisis" >>,
     weight |-> 35],
    [criterion |-> "trade_restrictions",
     keywords |-> <<
        "tariff imposed", "tariff increase", "new tariffs", "export ban",
        "import ban", "trade ban", "sanctions imposed",
        "sanctions announced", "trade barriers", "market access denied",
        "trade restrictions", "embargo", "export restrictions",
        "import restrictions", "trade war", "retaliatory tariffs" >>,
     weight |-> 30],
    [criterion |-> "regulatory_political_shock",
     keywords |-> <<
        "nationalization", "nationalised", "nationalized", "asset seizure",
        "assets seized", "expropriation", "industry ban", "sector ban",
        "regulatory crackdown", "government crackdown", "forced shutdown",
        "political crisis", "government collapse", "leadership removed",
        "president removed", "prime minister removed", "coup",
        "military takeover", "state of emergency declared",
        "institution dissolved", "parliament dissolved" >>,
     weight |-> 35],
    [criterion |-> "capital_withdrawal",
     keywords |-> <<
        "business closure", "company exit", "market exit",
        "withdrawal from market", "pulling out", "exiting country",
        "capital flight", "foreign investment withdrawn",
        "operations relocated", "factory relocated", "mass layoffs",
        "workforce reduction", "hiring freeze", "investment cancelled",
        "project cancelled", "expansion cancelled", "shutdown announced",
        "closure confirmed" >>,
     weight |-> 25],
    [criterion |-> "demand_contraction",
     keywords |-> <<
        "demand collapse", "demand fell", "demand dropped",
        "consumer spending fell", "consumer spending declined",
        "exports declined", "exports fell", "exports dropped",
        "industrial demand fell", "b2b transactions declined",
        "sales plummeted", "orders cancelled", "order backlog",
        "sustained decline", "continued contraction", "recession",
        "economic contraction", "quarter of contraction" >>,
     weight |-> 25],
    [criterion |-> "natural_disaster",
     keywords |-> <<
        "earthquake", "typhoon", "hurricane", "cyclone", "flood", "flooding",
        "major fire", "wildfire", "epidemic", "pandemic", "disease outbreak",
        "drought", "landslide", "tsunami", "volcanic eruption", "death toll",
        "casualties reported", "evacuation ordered", "disaster zone",
        "state of emergency", "emergency declared" >>,
     weight |-> 25],
    [criterion |-> "infrastructure_failure",
     keywords |-> <<
        "power grid failure", "grid collapse", "blackout", "port shutdown",
        "port closed", "port disruption", "telecommunications outage",
        "network failure", "payment system down", "banking system down",
        "cyberattack", "cyber attack", "ransomware",
        "transport system failure", "rail disruption", "air traffic halted",
        "infrastructure failure" >>,
     weight |-> 30],
    [criterion |-> "corporate_outlook_cuts",
     keywords |-> <<
        "negative outlook", "outlook cut", "profit warning",
        "earnings warning", "guidance cut", "lowered forecast", "capex cut",
        "capital expenditure cut", "investment cut", "project cancelled",
        "expansion cancelled", "hiring freeze", "job cuts",
        "layoffs announced", "restructuring announced", "cost cutting" >>,
     weight |-> 20],
    [criterion |-> "fiscal_tightening",
     keywords |-> <<
        "stimulus ended", "stimulus withdrawn", "support ended",
        "subsidy cut", "subsidy removed", "subsidy expired", "new tax",
        "tax increase", "tax hike", "austerity measures", "spending cuts",
        "budget cuts", "fiscal tightening", "government spending cut" >>,
     weight |-> 25],
    [criterion |-> "market_instability",
     keywords |-> <<
        "market crash", "stock market plunge", "stocks tumble", "index fell",
        "market volatility", "sharp decline", "currency plunge",
        "currency crash", "exchange rate fall", "commodity crash",
        "oil price crash", "price collapse", "trading halted",
        "circuit breaker", "sell-off" >>,
     weight |-> 20],
    [criterion |-> "geopolitical_escalation",
     keywords |-> <<
        "military conflict", "armed conflict", "border clash",
        "military confrontation", "maritime blockade", "naval blockade",
        "civil unrest", "riots", "protests turn violent",
        "state of emergency declared", "mobilization", "troops deployed",
        "military action", "escalation confirmed" >>,
     weight |-> 35],
    [criterion |-> "structural_escalation",
     keywords |-> <<
        "first time", "unprecedented", "never before", "record high",
        "record low", "worst since", "sharpest decline", "largest drop",
        "historic", "all-time", "exceptional", "extraordinary measures" >>,
     weight |-> 15]
  >>
\* r'\b(may|might|...)\b', ..., r'\b(warns|...)\b(?!\s+(of\s+)?(...))'
EXCLUSION_PATTERNS == <<
    Pattern(<<"may", "might", "could", "would", "should", "potentially",
              "possibly", "expected", "forecast", "projected", "predicted",
              "anticipated", "likely", "rumored", "speculated">>,
            <<>>, <<>>),
    Pattern(<<"proposal", "proposed", "draft", "plan to", "considering",
              "discussing", "negotiating", "talks about">>,
            <<>>, <<>>),
    Pattern(<<"if", "whether", "whether or not", "in case", "hypothetical",
              "scenario">>,
            <<>>, <<>>),
    Pattern(<<"risk of", "threat of", "concern about", "fear of",
              "worry about">>,
            <<>>, <<>>),
    Pattern(<<"warns", "warning", "caution", "advisory", "alert">>,
            <<>>, <<"confirmed", "announced", "declared">>)
  >>

CONFIRMATION_PATTERNS == <<
    Pattern(<<"confirmed", "announced", "declared", "official", "finalized",
              "completed", "executed", "implemented">>,
            <<>>, <<>>),
    Pattern(<<"has occurred", "occurred on", "took place", "happened">>,
            <<>>, <<>>),
    Pattern(<<"reported that", "stated that", "announced that">>,
            <<>>, <<>>)
  >>

\* the local list past_tense_indicators of _check_confirmed_outcome
past_tense_indicators == <<
    Pattern(<<"shut down", "closed", "collapsed", "defaulted", "filed",
              "declared", "announced", "implemented", "imposed", "occurred",
              "happened">>,
            <<>>, <<>>),
    Pattern(<<"has shut", "has closed", "has collapsed", "has defaulted",
              "has filed">>,
            <<>>, <<>>),
    Pattern(<<"has been", "were">>,
            <<"shut", "closed", "destroyed", "damaged", "cancelled",
              "halted", "stopped">>, <<>>),
    Pattern(<<"operations">>, <<"halted", "stopped", "suspended">>, <<>>)
  >>

\* the local list disaster_indicators of _check_confirmed_outcome
disaster_indicators == <<
    "earthquake struck", "typhoon hit", "flood hit", "fire destroyed",
    "killed", "died", "injured", "evacuated", "destroyed" >>

\* the qualification threshold 2.0 of detect, in tenths
QualificationThreshold == 20

(***************************************************************************)
(* The four stages.                                                         *)
(***************************************************************************)
\* variant: a country counts only as a whole word
_check_geographic_requirement_whole_word(text) ==
    LET text_lower == Lower(text)
    IN  \E country \in TARGET_COUNTRIES :
            \E i \in 1..Len(text_lower) :
                /\ LiteralAt(text_lower, i, country)
                /\ WordBoundary(text_lower, i)
                /\ WordBoundary(text_lower, i + Len(country))

_check_geographic_requirement(text) ==
    LET text_lower == Lower(text)
        starts == StartsOf(text_lower)
    IN  \E country \in TARGET_COUNTRIES :
            ContainsAt(text_lower, starts, country)

\* variant: every loop assigns has_confirmation, so the last loop decides
_check_confirmed_outcome_last_loop(text) ==
    LET text_lower == Lower(text)
        starts == StartsOf(text_lower)
    IN  \E k \in 1..Len(disaster_indicators) :
            ContainsAt(text_lower, starts, disaster_indicators[k])

_check_confirmed_outcome(text) ==
    \/ LET ftext == RegexFold(text)
       IN  \/ \E k \in 1..Len(CONFIRMATION_PATTERNS) :
                  Search(CONFIRMATION_PATTERNS[k], ftext)
           \/ \E k \in 1..Len(past_tense_indicators) :
                  Search(past_tense_indicators[k], ftext)
    \/ LET text_lower == Lower(text)
           starts == StartsOf(text_lower)
       IN  \E k \in 1..Len(disaster_indicators) :
               ContainsAt(text_lower, starts, disaster_indicators[k])

\* exclusion_count of _check_exclusion_patterns: the loop over the
\* families, adding len(re.findall(...)) of each
\* variant: the families not added up, the largest family count taken
RECURSIVE ExclusionCountFrom_largest(_, _)
ExclusionCountFrom_largest(ftext, k) ==
    IF k > Len(EXCLUSION_PATTERNS) THEN 0
    ELSE LET here == FindAllCount(EXCLUSION_PATTERNS[k], ftext)
             rest == ExclusionCountFrom_largest(ftext, k + 1)
         IN  IF here > rest THEN here ELSE rest

RECURSIVE ExclusionCountFrom(_, _)
ExclusionCountFrom(ftext, k) ==
    IF k > Len(EXCLUSION_PATTERNS) THEN 0
    ELSE FindAllCount(EXCLUSION_PATTERNS[k], ftext)
            + ExclusionCountFrom(ftext, k + 1)

exclusion_count(text) == ExclusionCountFrom(RegexFold(text), 1)

\* variant: the exclusion threshold taken as "more than 3"
_check_exclusion_patterns_strict(text) == exclusion_count(text) > 3

_check_exclusion_patterns(text) == exclusion_count(text) >= 3

\* variant: the break ends the scan after the first keyword of the list
AnyKeywordFrom_first_only(keywords, k, text_lower, starts) ==
    k <= Len(keywords) /\ ContainsAt(text_lower, starts, keywords[k])

\* the inner loop of the scorer: the first keyword found ends the scan
RECURSIVE AnyKeywordFrom(_, _, _, _)
AnyKeywordFrom(keywords, k, text_lower, starts) ==
    IF k > Len(keywords) THEN FALSE
    ELSE IF ContainsAt(text_lower, starts, keywords[k]) THEN TRUE
    ELSE AnyKeywordFrom(keywords, k + 1, text_lower, starts)

\* variant: the scan of a category without the break, adding the weight
\* for every keyword found
CategoryScore_per_keyword(config, text_lower, starts) ==
    config.weight
        * Len(SelectSeq(config.keywords,
                        LAMBDA kw : ContainsAt(text_lower, starts, kw)))

CategoryScore(config, text_lower, starts) ==
    IF AnyKeywordFrom(config.keywords, 1, text_lower, starts)
    THEN config.weight
    ELSE 0

RECURSIVE ScoreFrom(_, _, _)
ScoreFrom(text_lower, starts, c) ==
    IF c > Len(CRITERIA_KEYWORDS) THEN 0
    ELSE CategoryScore(CRITERIA_KEYWORDS[c], text_lower, starts)
            + ScoreFrom(text_lower, starts, c + 1)

_evaluate_criteria(text) ==
    LET text_lower == Lower(text)
    IN  ScoreFrom(text_lower, StartsOf(text_lower), 1)

(***************************************************************************)
(* detect: the stages in order, each failure returning "no" at once.       *)
(* calls is the list of the stage methods the call has run, criteria_score  *)
(* the local variable of that name (NoScore while it is not assigned).      *)
(***************************************************************************)
\* variant: the text without .lower()
Normalize_no_lower(title, content) == title \o " " \o content

\* variant: the title alone
Normalize_title_only(title, content) == Lower(title)

\* text = f"{title} {content}".lower()
Normalize(title, content) == Lower(title \o " " \o content)

NoScore == -1

\* variants of detect: one gate skipped, the threshold test changed, the
\* final return missing, or every stage run before the tests
detect_variant(event, v) ==
    LET text == Normalize(event.title, event.content)
        criteria_score == _evaluate_criteria(text)
        all == <<"geographic", "confirmed", "exclusion", "criteria">>
        eager == (v = "eager")
    IN  IF v # "skip_geographic" /\ ~_check_geographic_requirement(text)
        THEN [result |-> "no",
              calls |-> IF eager THEN all ELSE <<"geographic">>,
              criteria_score |-> IF eager THEN criteria_score ELSE NoScore]
        ELSE IF v # "skip_confirmation" /\ ~_check_confirmed_outcome(text)
        THEN [result |-> "no",
              calls |-> IF eager THEN all
                        ELSE IF v = "skip_geographic" THEN <<"confirmed">>
                        ELSE <<"geographic", "confirmed">>,
              criteria_score |-> IF eager THEN criteria_score ELSE NoScore]
        ELSE IF _check_exclusion_patterns(text)
        THEN [result |-> "no",
              calls |-> IF eager THEN all
                        ELSE IF v = "skip_geographic"
                        THEN <<"confirmed", "exclusion">>
                        ELSE IF v = "skip_confirmation"
                        THEN <<"geographic", "exclusion">>
                        ELSE <<"geographic", "confirmed", "exclusion">>,
              criteria_score |-> IF eager THEN criteria_score ELSE NoScore]
        ELSE [result |->
                  IF v = "strict_threshold"
                  THEN (IF criteria_score > QualificationThreshold
                        THEN "yes" ELSE "no")
                  ELSE IF criteria_score >= QualificationThreshold THEN "yes"
                  ELSE IF v = "falls_through" THEN "None"
                  ELSE "no",
              calls |-> IF v = "skip_geographic"
                        THEN <<"confirmed", "exclusion", "criteria">>
                        ELSE IF v = "skip_confirmation"
                        THEN <<"geographic", "exclusion", "criteria">>
                        ELSE all,
              criteria_score |-> criteria_score]

detect_skip_geographic(event) == detect_variant(event, "skip_geographic")

detect_skip_confirmation(event) == detect_variant(event, "skip_confirmation")

detect_strict_threshold(event) == detect_variant(event, "strict_threshold")

detect_falls_through(event) == detect_variant(event, "falls_through")

detect_eager(event) == detect_variant(event, "eager")

\* variant: a detector that believes the hints of the caller
detect_trusts_hints(event) ==
    IF event.is_confirmed THEN detect_variant(event, "skip_confirmation")
    ELSE IF event.country # "None"
    THEN detect_variant(event, "skip_geographic")
    ELSE detect_variant(event, "none")

detect(event) ==
    LET text == Normalize(event.title, event.content)
        criteria_score == _evaluate_criteria(text)
    IN  IF ~_check_geographic_requirement(text)
        THEN [result |-> "no", calls |-> <<"geographic">>,
              criteria_score |-> NoScore]
        ELSE IF ~_check_confirmed_outcome(text)
        THEN [result |-> "no", calls |-> <<"geographic", "confirmed">>,
              criteria_score |-> NoScore]
        ELSE IF _check_exclusion_patterns(text)
        THEN [result |-> "no",
              calls |-> <<"geographic", "confirmed", "exclusion">>,
              criteria_score |-> NoScore]
        ELSE [result |-> IF criteria_score >= QualificationThreshold
                         THEN "yes" ELSE "no",
              calls |-> <<"geographic", "confirmed", "exclusion",
                          "criteria">>,
              criteria_score |-> criteria_score]

\* EventContext(title=title, content=content): the hints take their defaults
EventContext(title, content) ==
    [title |-> title, content |-> content, country |-> "None",
     is_confirmed |-> FALSE, has_material_impact |-> FALSE]

detect_from_text(title, content) == detect(EventContext(title, content))

(***************************************************************************)
(* get_detailed_analysis                                                    *)
(***************************************************************************)
\* variant: a keyword counts only for the first category that lists it
MatchedKeywords_first_category(config, text, starts) ==
    LET own == CHOOSE c \in 1..Len(CRITERIA_KEYWORDS) :
                   CRITERIA_KEYWORDS[c].criterion = config.criterion
    IN  SelectSeq(config.keywords,
            LAMBDA kw :
                /\ ContainsAt(text, starts, kw)
                /\ ~\E c \in 1..(own - 1) :
                       \E k \in 1..Len(CRITERIA_KEYWORDS[c].keywords) :
                           CRITERIA_KEYWORDS[c].keywords[k] = kw)

\* matched_keywords of one category: every keyword found, in list order
MatchedKeywords(config, text, starts) ==
    SelectSeq(config.keywords, LAMBDA kw : ContainsAt(text, starts, kw))

\* variant: every matched keyword shown
FirstThree_all(s) == s

FirstThree(s) == SubSeq(s, 1, IF Len(s) < 3 THEN Len(s) ELSE 3)

\* variant: the weight is added once per matched keyword
RECURSIVE AnalysisLoop_per_keyword(_, _, _, _, _)
AnalysisLoop_per_keyword(text, starts, c, matched_criteria, total_score) ==
    IF c > Len(CRITERIA_KEYWORDS)
    THEN [matched_criteria |-> matched_criteria, total_score |-> total_score]
    ELSE LET config == CRITERIA_KEYWORDS[c]
             matched_keywords == MatchedKeywords(config, text, starts)
         IN  IF matched_keywords # <<>>
             THEN AnalysisLoop_per_keyword(text, starts, c + 1,
                      Append(matched_criteria,
                             [criterion |-> config.criterion,
                              matched_keywords |-> FirstThree(matched_keywords),
                              weight |-> config.weight]),
                      total_score + Len(matched_keywords) * config.weight)
             ELSE AnalysisLoop_per_keyword(text, starts, c + 1,
                                           matched_criteria, total_score)

\* the loop over the categories: the entries of matched_criteria and the
\* running total_score
RECURSIVE AnalysisLoop(_, _, _, _, _)
AnalysisLoop(text, starts, c, matched_criteria, total_score) ==
    IF c > Len(CRITERIA_KEYWORDS)
    THEN [matched_criteria |-> matched_criteria, total_score |-> total_score]
    ELSE LET config == CRITERIA_KEYWORDS[c]
             matched_keywords == MatchedKeywords(config, text, starts)
         IN  IF matched_keywords # <<>>
             THEN AnalysisLoop(text, starts, c + 1,
                      Append(matched_criteria,
                             [criterion |-> config.criterion,
                              matched_keywords |-> FirstThree(matched_keywords),
                              weight |-> config.weight]),
                      total_score + config.weight)
             ELSE AnalysisLoop(text, starts, c + 1, matched_criteria,
                               total_score)

\* variant: the text of the analysis without .lower()
get_detailed_analysis_raw_text(title, content) ==
    LET text == title \o " " \o content
        loop == AnalysisLoop(text, StartsOf(text), 1, <<>>, 0)
    IN  [result |-> detect_from_text(title, content).result,
         geographic_match |-> _check_geographic_requirement(text),
         confirmed_outcome |-> _check_confirmed_outcome(text),
         excluded |-> _check_exclusion_patterns(text),
         criteria_matches |-> loop.matched_criteria,
         total_score |-> loop.total_score]

\* the category loop of get_detailed_analysis on its text: the entries of
\* criteria_matches and total_score
analysis_criteria(title, content) ==
    LET text == Normalize(title, content)
    IN  AnalysisLoop(text, StartsOf(text), 1, <<>>, 0)

get_detailed_analysis(title, content) ==
    LET text == Normalize(title, content)
        loop == analysis_criteria(title, content)
    IN  [result |-> detect_from_text(title, content).result,
         geographic_match |-> _check_geographic_requirement(text),
         confirmed_outcome |-> _check_confirmed_outcome(text),
         excluded |-> _check_exclusion_patterns(text),
         criteria_matches |-> loop.matched_criteria,
         total_score |-> loop.total_score]

(***************************************************************************)
(* The inputs.  An event is a title and a content made of at most MaxFrags *)
(* fragments joined by single spaces.                                       *)
(***************************************************************************)
MaxFrags == 2

Titles == {"", "Jakarta port closed", "Hanoi briefing"}

Fragments ==
    {"@ndonesia", "earthquake struck", "may or might", "warning",
     "layoffs announced", "confirmed unprecedented", "Bankruptcy"}

RECURSIVE Join(_)
Join(frags) ==
    IF frags = <<>> THEN ""
    ELSE IF Len(frags) = 1 THEN frags[1]
    ELSE frags[1] \o " " \o Join(Tail(frags))

Contents ==
    {Join(frags) : frags \in UNION {[1..n -> Fragments] : n \in 0..MaxFrags}}

Events == {[title |-> t, content |-> c] : t \in Titles, c \in Contents}

\* the events of the runs in which a second event is classified in between
RepeatEvents ==
    {[title |-> t, content |-> c] :
        t \in Titles, c \in {"", "earthquake struck", "warning",
                             "layoffs announced", "Bankruptcy"}}

\* the second event
OtherEvent == [title |-> "Beijing confirmed", content |-> "Bankruptcy"]

NoValue == "none"

(***************************************************************************)
(* State: a caller holding one event calls the methods of a detector.       *)
(***************************************************************************)
VARIABLES
    event,          \* the event the caller holds
    op,             \* the method called last ("none" before the first call)
    arg,            \* the event passed to it
    result,         \* the verdict detect_from_text returned, when it ran last
    calls,          \* the stage methods that detect ran, in order
    criteria_score, \* the local criteria_score of that detect
    analysis,       \* <<r>>, r the record get_detailed_analysis returned,
                    \* when it ran last
    first,          \* the first value each method returned for event
    input_json,     \* what input_file holds: "array", "object", "number",
                    \* or "invalid" for text that is not JSON
    events,         \* the objects of the array in input_file, in order
    junk_at,        \* the place in the array of an element that is not an
                    \* object (a number), 0 when there is none
    error,          \* the exception process_json_file raised last
    output_file,    \* <<>> for None, <<path>> for a path
    results,        \* <<list>>, the list process_json_file returned last
    written,        \* <<list>>, the list json.dump wrote to output_file
    batch_calls,    \* the (title, content) pairs process_json_file passed
                    \* to detect_from_text, in order
    threads,        \* for each thread that shares the detector: the frame
                    \* of its call (method, arguments, position, locals)
    instance,       \* the attributes of the shared detector object
    argv,           \* the arguments argparse gave main; <<>> is None
    stdin,          \* the text on standard input
    terminal,       \* the lines typed in interactive mode
    printed,        \* what main printed, one entry for each print
    branch,         \* the branch of main that ran
    stdin_returned, \* what process_stdin returned last, in a sequence of one
    cli_error,      \* the exception that left process_stdin or main
    files,          \* for each day, the file of that day in data_dir
    today,          \* the day datetime.now() gives
    articles,       \* the list a caller passes to StorageAgent.save
    returned,       \* the paths save returned, in order
    max_retries,    \* self.max_retries of the ArticleScraperAgent
    delay,          \* self.delay, in seconds
    scrape_pc,      \* where the call of scrape_article is
    url,            \* its argument
    attempt,        \* the loop variable
    fetched,        \* what each attempt so far came to: <<>> for an
                    \* exception, a sequence of one result for a page fetched
    slept,          \* the arguments of the calls of time.sleep, in order
    scraped         \* what scrape_article returned; value <<>> is None

detector_vars ==
    <<event, op, arg, result, calls, criteria_score, analysis, first>>

batch_vars ==
    <<input_json, events, junk_at, error, output_file, results, written,
      batch_calls>>

thread_vars == <<threads, instance>>

cli_vars ==
    <<argv, stdin, terminal, printed, branch, stdin_returned, cli_error>>

\* the variables of the parts that are not the detector or the batch
store_vars == <<files, today, articles, returned>>

scraper_vars ==
    <<max_retries, delay, scrape_pc, url, attempt, fetched, slept, scraped>>

agent_vars == <<store_vars, scraper_vars>>

other_vars == <<thread_vars, cli_vars, agent_vars>>

vars == <<detector_vars, batch_vars, other_vars>>

\* the state after NegativeEventDetector(): __init__ assigns nothing
Construct ==
    /\ op = NoValue
    /\ arg = event
    /\ result = NoValue
    /\ calls = <<>>
    /\ criteria_score = NoScore
    /\ analysis = <<>>
    /\ first = [detect_from_text |-> <<>>, get_detailed_analysis |-> <<>>]

\* no input file has been processed
NoBatch ==
    /\ input_json = "array"
    /\ events = <<>>
    /\ junk_at = 0
    /\ error = NoValue
    /\ output_file = <<>>
    /\ results = <<>>
    /\ written = <<>>
    /\ batch_calls = <<>>

Threads == {1, 2}

\* a thread that is in no call
IdleFrame ==
    [pc |-> "idle", method |-> NoValue,
     event |-> [title |-> "", content |-> ""], text |-> "",
     acc |-> <<>>, ret |-> <<>>, interleaved |-> FALSE]

\* no thread is in a call; __init__ gives the object no attribute
NoThreads ==
    /\ threads = [t \in Threads |-> IdleFrame]
    /\ instance = <<>>

\* parser.parse_args() of an empty command line
NoArgs ==
    [interactive |-> FALSE, stdin |-> FALSE, detailed |-> FALSE,
     title |-> <<>>, content |-> <<>>, input |-> <<>>, output |-> <<>>]

\* main and process_stdin have not run
NoCli ==
    /\ argv = NoArgs
    /\ stdin = ""
    /\ terminal = <<>>
    /\ printed = <<>>
    /\ branch = NoValue
    /\ stdin_returned = <<>>
    /\ cli_error = NoValue

\* the days of a run, as strftime("%Y-%m-%d") gives them
Days == <<"2026-11-06", "2026-11-07">>

\* a path that does not exist
NoFile == [exists |-> FALSE, loads |-> FALSE, articles |-> <<>>]

\* StorageAgent(): data_dir is empty and save was not called
NoStore ==
    /\ files = [d \in 1..Len(Days) |-> NoFile]
    /\ today = 1
    /\ articles = <<>>
    /\ returned = <<>>

\* scrape_article has not returned
NotReturned == [returned |-> FALSE, value |-> <<>>]

\* ArticleScraperAgent(): the defaults of __init__, no call yet
NoScraper ==
    /\ max_retries = 3
    /\ delay = 2
    /\ scrape_pc = "idle"
    /\ url = ""
    /\ attempt = 0
    /\ fetched = <<>>
    /\ slept = <<>>
    /\ scraped = NotReturned

NoAgents == NoStore /\ NoScraper

NoOther == NoThreads /\ NoCli /\ NoAgents

Init == event \in Events /\ Construct /\ NoBatch /\ NoOther

Remember(method, e, value) ==
    IF e = event /\ first[method] = <<>>
    THEN [first EXCEPT ![method] = <<value>>]
    ELSE first

\* variant: a detector that keeps its last verdict and returns it again
DetectFromText_cached(e) ==
    \E r \in {detect_from_text(e.title, e.content)} :
        /\ op' = "detect_from_text"
        /\ arg' = e
        /\ result' = IF result # NoValue THEN result ELSE r.result
        /\ calls' = r.calls
        /\ criteria_score' = r.criteria_score
        /\ analysis' = <<>>
        /\ first' = Remember("detect_from_text", e, result')
        /\ UNCHANGED <<event, batch_vars, other_vars>>

DetectFromText(e) ==
    \E r \in {detect_from_text(e.title, e.content)} :
        /\ op' = "detect_from_text"
        /\ arg' = e
        /\ result' = r.result
        /\ calls' = r.calls
        /\ criteria_score' = r.criteria_score
        /\ analysis' = <<>>
        /\ first' = Remember("detect_from_text", e, r.result)
        /\ UNCHANGED <<event, batch_vars, other_vars>>

GetDetailedAnalysis(e) ==
    \E r \in {get_detailed_analysis(e.title, e.content)} :
        /\ op' = "get_detailed_analysis"
        /\ arg' = e
        /\ result' = NoValue
        /\ calls' = <<>>
        /\ criteria_score' = NoScore
        /\ analysis' = <<r>>
        /\ first' = Remember("get_detailed_analysis", e, r)
        /\ UNCHANGED <<event, batch_vars, other_vars>>

Next ==
    \/ DetectFromText(event)
    \/ GetDetailedAnalysis(event)

Spec == Init /\ [][Next]_vars

\* runs in which the caller also classifies a second event in between
InitRepeat == event \in RepeatEvents /\ Construct /\ NoBatch /\ NoOther

NextRepeat ==
    \/ DetectFromText(event)
    \/ DetectFromText(OtherEvent)
    \/ GetDetailedAnalysis(event)
    \/ GetDetailedAnalysis(OtherEvent)

SpecRepeat == InitRepeat /\ [][NextRepeat]_vars

\* a caller that builds the EventContext itself and fills in the optional
\* fields
CountryHints == {"None", "Indonesia", "Japan"}

Contexts(e) ==
    {[title |-> e.title, content |-> e.content, country |-> c,
      is_confirmed |-> ic, has_material_impact |-> mi] :
        c \in CountryHints, ic \in BOOLEAN, mi \in BOOLEAN}

Detect(context) ==
    \E r \in {detect(context)} :
        /\ op' = "detect"
        /\ arg' = context
        /\ result' = r.result
        /\ calls' = r.calls
        /\ criteria_score' = r.criteria_score
        /\ analysis' = <<>>
        /\ UNCHANGED <<event, first, batch_vars, other_vars>>

NextHints == \E context \in Contexts(event) : Detect(context)

SpecHints == InitRepeat /\ [][NextHints]_vars

(***************************************************************************)
(* Runs on texts that exercise the single gates and on the reference       *)
(* corpus of the test harness (test_detector.py).                           *)
(***************************************************************************)
\* test_cases of run_tests
test_cases == <<
    [title |->
          "Major earthquake hits Indonesia, killing hundreds",
     content |->
          "A powerful 7.5 magnitude earthquake struck Sulawesi, "
          \o "Indonesia on Friday, killing at least 400 people and "
          \o "destroying thousands of homes. The government has declared"
          \o " a state of emergency.",
     expected |-> "yes"],
    [title |->
          "Company considers potential layoffs next year",
     content |->
          "PT Manufacturing is considering the possibility of "
          \o "reducing its workforce next year if market conditions do "
          \o "not improve.",
     expected |-> "no"],
    [title |->
          "Vietnam factory shuts down after confirmed bankruptcy",
     content |->
          "Samsung's supplier in Vietnam has confirmed the closure of"
          \o " its factory after filing for bankruptcy. 5,000 workers "
          \o "have been laid off.",
     expected |-> "yes"],
    [title |->
          "Analysts predict China economic growth may slow",
     content |->
          "Economic analysts predict that China's growth may slow "
          \o "down in the coming quarters due to various factors.",
     expected |-> "no"],
    [title |->
          "Cambodia announces tariff increase on imports",
     content |->
          "The Cambodian government has officially announced a 25% "
          \o "tariff increase on all imported electronics, effective "
          \o "immediately.",
     expected |-> "yes"],
    [title |->
          "Laos banking system faces liquidity crisis",
     content |->
          "The Central Bank of Laos has confirmed a severe liquidity "
          \o "crisis affecting multiple commercial banks. Emergency "
          \o "measures have been implemented.",
     expected |-> "yes"],
    [title |->
          "New proposal discussed for infrastructure investment",
     content |->
          "Government officials are discussing a new proposal for "
          \o "infrastructure investment that could potentially benefit "
          \o "the economy.",
     expected |-> "no"],
    [title |->
          "Port of Jakarta confirmed closed due to strike",
     content |->
          "The Port of Jakarta has been confirmed closed after a "
          \o "massive workers' strike began on Monday. All shipping "
          \o "operations have been halted indefinitely.",
     expected |-> "yes"],
    [title |->
          "Company reports quarterly earnings",
     content |->
          "PT Telekom reported its quarterly earnings today, showing "
          \o "steady performance in line with expectations.",
     expected |-> "no"],
    [title |->
          "Indonesia imposes export ban on raw nickel ore",
     content |->
          "The Indonesian government has officially implemented an "
          \o "export ban on raw nickel ore, effective January 1st. The "
          \o "policy has been confirmed and finalized.",
     expected |-> "yes"]
  >>

\* the loop of run_tests from case i on: the counters passed and failed
RECURSIVE run_tests_from(_, _, _)
run_tests_from(i, passed, failed) ==
    IF i > Len(test_cases) THEN [passed |-> passed, failed |-> failed]
    ELSE LET test == test_cases[i]
             got == detect_from_text(test.title, test.content).result
         IN  IF got = test.expected
             THEN run_tests_from(i + 1, passed + 1, failed)
             ELSE run_tests_from(i + 1, passed, failed + 1)

\* run_tests(): failed == 0
run_tests == run_tests_from(1, 0, 0).failed = 0

CorpusEvents ==
    {[title |-> test_cases[i].title, content |-> test_cases[i].content] :
        i \in 1..Len(test_cases)}

GateTitles == {"", "Hanoi may if"}

GateFragments ==
    {"indonesians killed", "flooding state of emergency declared",
     "confirmed", "declared", "were halted", "might", "warns of", "alert"}

GateContents ==
    {Join(frags) :
        frags \in UNION {[1..n -> GateFragments] : n \in 0..MaxFrags}}

GateEvents ==
    {[title |-> t, content |-> c] : t \in GateTitles, c \in GateContents}

InitGates ==
    event \in GateEvents \cup CorpusEvents /\ Construct /\ NoBatch /\ NoOther

SpecGates == InitGates /\ [][Next]_vars

\* events made of keyword phrases that several categories list, or that
\* hold a keyword of another category
OverlapTitles == {"", "Jakarta confirmed"}

OverlapFragments ==
    {"blackout", "port closed", "capital flight", "project cancelled",
     "state of emergency declared", "sovereign default"}

OverlapContents ==
    {Join(frags) :
        frags \in UNION {[1..n -> OverlapFragments] : n \in 0..MaxFrags}}

OverlapEvents ==
    {[title |-> t, content |-> c] :
        t \in OverlapTitles, c \in OverlapContents}

InitOverlap == event \in OverlapEvents /\ Construct /\ NoBatch /\ NoOther

SpecOverlap == InitOverlap /\ [][Next]_vars

(***************************************************************************)
(* pipeline.py: batch mode.  A JSON object is a function from its field     *)
(* names to its values, which are strings.                                 *)
(***************************************************************************)
\* obj.get(key, '')
Get(obj, key) == IF key \in DOMAIN obj THEN obj[key] ELSE ""

\* a or b, for strings
Or(a, b) == IF a # "" THEN a ELSE b

\* variant: summary is looked at before description
SelectContent_summary_first(obj) ==
    Or(Or(Get(obj, "content"), Get(obj, "summary")), Get(obj, "description"))

\* event.get('content', '') or event.get('description', '')
\*     or event.get('summary', '')
SelectContent(obj) ==
    Or(Or(Get(obj, "content"), Get(obj, "description")), Get(obj, "summary"))

\* variant: the fields of the event are laid over the two new ones
Merge_event_last(obj, extra) ==
    [k \in DOMAIN obj \cup DOMAIN extra |->
        IF k \in DOMAIN obj THEN obj[k] ELSE extra[k]]

\* {**obj, **extra}: the fields of extra replace those of obj
Merge(obj, extra) ==
    [k \in DOMAIN obj \cup DOMAIN extra |->
        IF k \in DOMAIN extra THEN extra[k] ELSE obj[k]]

\* the values datetime.now().isoformat() may give
Timestamps == {"2026-11-06T09:00:00.000001", "2026-11-06T09:00:00.000002"}

\* the loop of process_json_file over events: the title and the content
\* taken from each event and what detect_from_text returns for them
RECURSIVE BatchLoop(_, _, _)
BatchLoop(list, i, passed) ==
    IF i > Len(list) THEN passed
    ELSE LET ev == list[i]
             title == Get(ev, "title")
             content == SelectContent(ev)
         IN  BatchLoop(list, i + 1,
                 Append(passed,
                        [title |-> title, content |-> content,
                         r |-> detect_from_text(title, content)]))

\* processed_event for each event of the loop; stamps[i] is the time read
\* for the i-th event
ProcessedEvents(list, passed, stamps) ==
    [i \in 1..Len(list) |->
        Merge(list[i], [negative_high_impact |-> passed[i].r.result,
                        processed_at |-> stamps[i]])]

\* if output_file:
Truthy(file) == file # <<>> /\ file[1] # ""

\* the first verdict of the batch for the event the caller holds
RememberBatch(passed) ==
    LET hits == {i \in 1..Len(passed) :
                    passed[i].title = event.title
                        /\ passed[i].content = event.content}
    IN  IF hits = {} \/ first.detect_from_text # <<>>
        THEN first
        ELSE [first EXCEPT !.detect_from_text =
                 <<passed[CHOOSE i \in hits : \A j \in hits : i <= j]
                       .r.result>>]

\* the exception the function ends with, NoValue when it returns:
\* json.load raises on text that is not JSON, the for loop on a value that
\* cannot be iterated, event.get on an element that is not an object (the
\* keys of an object, which has one at least, are strings)
Raised ==
    CASE input_json = "invalid" -> "JSONDecodeError"
      [] input_json = "number" -> "TypeError"
      [] input_json = "object" -> "AttributeError"
      [] OTHER -> IF junk_at # 0 THEN "AttributeError" ELSE NoValue

\* the events the loop classifies before the function returns or raises
Classified ==
    IF input_json # "array" THEN <<>>
    ELSE IF junk_at = 0 THEN events
    ELSE SubSeq(events, 1, junk_at - 1)

\* variant: the results so far are written also when the loop raised
WriteOutput_partial(file, list, raised) ==
    IF Truthy(file) THEN <<list>> ELSE written

\* if output_file: json.dump(results, f), reached only when nothing raised
WriteOutput(file, list, raised) ==
    IF raised = NoValue /\ Truthy(file) THEN <<list>> ELSE written

\* process_json_file(detector, input_file, file): the loop, then the write
\* when an output file is given
BatchRun(file) ==
    \E passed \in {BatchLoop(Classified, 1, <<>>)} :
        \E stamps \in [1..Len(Classified) -> Timestamps] :
            \E list \in {ProcessedEvents(Classified, passed, stamps)} :
                /\ error' = Raised
                /\ results' = IF Raised = NoValue THEN <<list>> ELSE <<>>
                /\ batch_calls' =
                       [i \in 1..Len(passed) |->
                           [title |-> passed[i].title,
                            content |-> passed[i].content]]
                /\ written' = WriteOutput(file, list, Raised)
                /\ IF passed = <<>>
                   THEN UNCHANGED <<op, arg, result, calls, criteria_score,
                                    analysis>>
                   ELSE LET last == passed[Len(passed)]
                        IN  /\ op' = "detect_from_text"
                            /\ arg' = [title |-> last.title,
                                       content |-> last.content]
                            /\ result' = last.r.result
                            /\ calls' = last.r.calls
                            /\ criteria_score' = last.r.criteria_score
                            /\ analysis' = <<>>
                /\ first' = RememberBatch(passed)
                /\ UNCHANGED <<event, input_json, events, junk_at>>

\* a call of process_json_file with the output file of the state
ProcessJsonFile ==
    /\ BatchRun(output_file)
    /\ UNCHANGED <<output_file, other_vars>>

MaxBatch == 2

\* the objects of the input files: with and without a title, with the body
\* in content, description or summary, with empty and with absent fields,
\* with a field of their own, and one that was processed before
BatchObjects ==
    { [title |-> "Jakarta", content |-> "flood killed ten", url |-> "u1"],
      [title |-> "Jakarta", content |-> "",
       description |-> "flood killed ten", summary |-> "talks held"],
      [title |-> "Jakarta", summary |-> "flood killed ten"],
      [title |-> "Jakarta", content |-> "talks held",
       description |-> "flood killed ten"],
      [description |-> "jakarta flood killed ten"],
      [title |-> "Jakarta", content |-> "", negative_high_impact |-> "yes",
       processed_at |-> "2025-01-01T00:00:00"],
      [id |-> "7"] }

RECURSIVE ListsOf(_, _)
ListsOf(S, n) ==
    IF n = 0 THEN {<<>>}
    ELSE LET shorter == ListsOf(S, n - 1)
         IN  shorter \cup
             {Append(l, x) : l \in {m \in shorter : Len(m) = n - 1}, x \in S}

InputLists == ListsOf(BatchObjects, MaxBatch)

OutputFiles == {<<>>, <<"">>, <<"data/processed_events.json">>}

InitBatch ==
    /\ event = [title |-> "", content |-> ""]
    /\ Construct
    /\ input_json = "array"
    /\ events \in InputLists
    /\ junk_at = 0
    /\ error = NoValue
    /\ output_file \in OutputFiles
    /\ results = <<>>
    /\ written = <<>>
    /\ batch_calls = <<>>
    /\ NoOther

NextBatch == ProcessJsonFile

SpecBatch == InitBatch /\ [][NextBatch]_vars

\* input files of every kind, and an output file that may exist already
JsonKinds == {"invalid", "number", "object", "array"}

FileObjects ==
    { [title |-> "Jakarta", content |-> "flood killed ten", url |-> "u1"],
      [title |-> "Jakarta", summary |-> "flood killed ten"],
      [id |-> "7"] }

PriorOutput ==
    <<[title |-> "Hanoi", negative_high_impact |-> "no",
       processed_at |-> "2025-01-01T00:00:00"]>>

InitBatchFiles ==
    /\ event = [title |-> "", content |-> ""]
    /\ Construct
    /\ input_json \in JsonKinds
    /\ events \in ListsOf(FileObjects, MaxBatch)
    /\ input_json # "array" => events = <<>>
    /\ junk_at \in 0..(Len(events) + 1)
    /\ input_json # "array" => junk_at = 0
    /\ error = NoValue
    /\ output_file \in OutputFiles
    /\ results = <<>>
    /\ written \in {<<>>, <<PriorOutput>>}
    /\ batch_calls = <<>>
    /\ NoOther

SpecBatchFiles == InitBatchFiles /\ [][NextBatch]_vars

(***************************************************************************)
(* Threads that share one detector.  A call is a frame of its own; its     *)
(* steps are the statements of detect and of get_detailed_analysis, and    *)
(* the steps of different threads interleave.                              *)
(***************************************************************************)
\* variant: the text is kept in the detector, where the call of another
\* thread overwrites it
StageText_shared(t) ==
    LET others == {u \in Threads :
                      u # t /\ threads[u].pc \notin {"idle", "done"}}
    IN  IF others = {} THEN threads[t].text
        ELSE threads[CHOOSE u \in others : TRUE].text

\* the local variable text of the call of thread t
StageText(t) == threads[t].text

\* thread t moves to frame; the calls in progress in other threads have
\* then seen a step of another thread
StepTo(t, frame) ==
    /\ threads' =
           [u \in Threads |->
               IF u = t THEN frame
               ELSE IF threads[u].pc \notin {"idle", "done"}
               THEN [threads[u] EXCEPT !.interleaved = TRUE]
               ELSE threads[u]]
    /\ UNCHANGED <<instance, detector_vars, batch_vars, cli_vars,
                   agent_vars>>

Returns(t, value) ==
    StepTo(t, [threads[t] EXCEPT !.pc = "done", !.ret = <<value>>])

Goes(t, pc) == StepTo(t, [threads[t] EXCEPT !.pc = pc])

ThreadEvents ==
    { [title |-> "Jakarta", content |-> "flood killed ten"],
      [title |-> "Hanoi", content |-> "talks held"],
      [title |-> "", content |-> "talks held"] }

\* detect_from_text(title, content) is called: the EventContext, and the
\* text of detect
CallDetect(t, e) ==
    /\ threads[t].pc \in {"idle", "done"}
    /\ StepTo(t, [pc |-> "geographic", method |-> "detect_from_text",
                  event |-> e, text |-> Normalize(e.title, e.content),
                  acc |-> <<>>, ret |-> <<>>, interleaved |-> FALSE])

CheckGeographic(t) ==
    /\ threads[t].pc = "geographic"
    /\ IF ~_check_geographic_requirement(StageText(t))
       THEN Returns(t, "no")
       ELSE Goes(t, "confirmed")

CheckConfirmed(t) ==
    /\ threads[t].pc = "confirmed"
    /\ IF ~_check_confirmed_outcome(StageText(t))
       THEN Returns(t, "no")
       ELSE Goes(t, "exclusion")

CheckExclusion(t) ==
    /\ threads[t].pc = "exclusion"
    /\ IF _check_exclusion_patterns(StageText(t))
       THEN Returns(t, "no")
       ELSE Goes(t, "criteria")

EvaluateCriteria(t) ==
    /\ threads[t].pc = "criteria"
    /\ IF _evaluate_criteria(StageText(t)) >= QualificationThreshold
       THEN Returns(t, "yes")
       ELSE Returns(t, "no")

\* get_detailed_analysis(title, content) is called: its text
CallAnalysis(t, e) ==
    /\ threads[t].pc \in {"idle", "done"}
    /\ StepTo(t, [pc |-> "analysis_result",
                  method |-> "get_detailed_analysis",
                  event |-> e, text |-> Normalize(e.title, e.content),
                  acc |-> <<>>, ret |-> <<>>, interleaved |-> FALSE])

\* "result": self.detect_from_text(title, content)
AnalysisResult(t) ==
    /\ threads[t].pc = "analysis_result"
    /\ StepTo(t, [threads[t] EXCEPT
                     !.pc = "analysis_gates",
                     !.acc = <<detect_from_text(threads[t].event.title,
                                   threads[t].event.content).result>>])

\* the three gate entries of the dict
AnalysisGates(t) ==
    /\ threads[t].pc = "analysis_gates"
    /\ StepTo(t, [threads[t] EXCEPT
                     !.pc = "analysis_criteria",
                     !.acc = <<[result |-> threads[t].acc[1],
                                geographic_match |->
                                    _check_geographic_requirement(
                                        StageText(t)),
                                confirmed_outcome |->
                                    _check_confirmed_outcome(StageText(t)),
                                excluded |->
                                    _check_exclusion_patterns(
                                        StageText(t))]>>])

\* the loop over the categories, and the return
AnalysisCriteria(t) ==
    /\ threads[t].pc = "analysis_criteria"
    /\ \E loop \in {AnalysisLoop(StageText(t), StartsOf(StageText(t)), 1,
                                 <<>>, 0)} :
           Returns(t, [result |-> threads[t].acc[1].result,
                       geographic_match |->
                           threads[t].acc[1].geographic_match,
                       confirmed_outcome |->
                           threads[t].acc[1].confirmed_outcome,
                       excluded |-> threads[t].acc[1].excluded,
                       criteria_matches |-> loop.matched_criteria,
                       total_score |-> loop.total_score])

InitThreads ==
    /\ event = [title |-> "", content |-> ""]
    /\ Construct
    /\ NoBatch
    /\ NoOther

(***************************************************************************)
(* pipeline.py: process_stdin.                                             *)
(***************************************************************************)
\* str.strip(): the white space at both ends is removed
RECURSIVE Strip(_)
Strip(s) ==
    IF s = "" THEN ""
    ELSE IF CharAt(s, 1) \in SpaceChars THEN Strip(SubSeq(s, 2, Len(s)))
    ELSE IF CharAt(s, Len(s)) \in SpaceChars
    THEN Strip(SubSeq(s, 1, Len(s) - 1))
    ELSE s

\* str.split('\n'): the pieces between the newlines, one piece at least
SplitLines(s) ==
    LET breaks == {i \in 1..Len(s) : CharAt(s, i) = "\n"}
        n == Cardinality(breaks)
        Break(k) ==
            CHOOSE i \in breaks : Cardinality({j \in breaks : j < i}) = k - 1
    IN  [k \in 1..n + 1 |->
            SubSeq(s, IF k = 1 THEN 1 ELSE Break(k - 1) + 1,
                      IF k = n + 1 THEN Len(s) ELSE Break(k) - 1)]

\* '\n'.join(lines)
RECURSIVE JoinLines(_)
JoinLines(lines) ==
    IF lines = <<>> THEN ""
    ELSE IF Len(lines) = 1 THEN lines[1]
    ELSE lines[1] \o "\n" \o JoinLines(Tail(lines))

\* the fields of an event, in the order they are written in
FieldOrder == <<"title", "content", "description", "summary">>

\* the text of a JSON object with fields of FieldOrder, as json.dumps
\* writes it
RECURSIVE DumpsFrom(_, _, _)
DumpsFrom(obj, k, sep) ==
    IF k > Len(FieldOrder) THEN ""
    ELSE IF FieldOrder[k] \in DOMAIN obj
    THEN sep \o "\"" \o FieldOrder[k] \o "\": \"" \o obj[FieldOrder[k]]
             \o "\"" \o DumpsFrom(obj, k + 1, ", ")
    ELSE DumpsFrom(obj, k + 1, sep)

Dumps(obj) == "{" \o DumpsFrom(obj, 1, "") \o "}"

\* the objects with a title of two, a content of three, a description of
\* two and a summary of two values, each field present or not
FieldValues ==
    [title |-> {"Jakarta", ""},
     content |-> {"talks held", "", "flood killed ten"},
     description |-> {"flood killed ten", ""},
     summary |-> {"flood killed ten", "talks held"}]

StdinObjects ==
    UNION {{obj \in [fields -> UNION {FieldValues[k] : k \in fields}] :
               \A k \in fields : obj[k] \in FieldValues[k]} :
           fields \in (SUBSET {"title", "content", "description",
                               "summary"}) \ {{}}}

\* json.loads(line): the value, or "invalid" where JSONDecodeError is
\* raised
JsonLoads(line) ==
    IF \E obj \in StdinObjects : Dumps(obj) = line
    THEN [kind |-> "object",
          object |-> CHOOSE obj \in StdinObjects : Dumps(obj) = line]
    ELSE IF line # "" /\ \A i \in 1..Len(line) :
                            CharAt(line, i) \in CharsOf(DigitChars)
    THEN [kind |-> "number"]
    ELSE IF line \in {"null", "true", "false"}
    THEN [kind |-> line]
    ELSE IF line = "[]"
    THEN [kind |-> "array"]
    ELSE IF /\ Len(line) >= 2
            /\ CharAt(line, 1) = "\"" /\ CharAt(line, Len(line)) = "\""
            /\ \A i \in 2..(Len(line) - 1) :
                   CharAt(line, i) \notin {"\"", "\\"}
    THEN [kind |-> "string"]
    ELSE [kind |-> "invalid"]

\* process_stdin on the text of standard input: the title and the content
\* it takes and what detect_from_text returns, or the exception it raises
process_stdin(text) ==
    LET lines == SplitLines(Strip(text))
        call(title, content) ==
            [error |-> NoValue, title |-> title, content |-> content,
             r |-> detect_from_text(title, content)]
    IN  IF Len(lines) >= 2
        THEN call(lines[1], JoinLines(Tail(lines)))
        ELSE LET data == JsonLoads(lines[1])
             IN  IF data.kind = "invalid" THEN call(lines[1], "")
                 ELSE IF data.kind = "object"
                 THEN call(Get(data.object, "title"),
                           Or(Get(data.object, "content"),
                              Get(data.object, "description")))
                 ELSE [error |-> "AttributeError"]

\* what a call of detect_from_text from process_stdin or main leaves in
\* the detector's variables
DetectorAfter(o) ==
    IF o.error # NoValue THEN UNCHANGED detector_vars
    ELSE /\ op' = "detect_from_text"
         /\ arg' = [title |-> o.title, content |-> o.content]
         /\ result' = o.r.result
         /\ calls' = o.r.calls
         /\ criteria_score' = o.r.criteria_score
         /\ analysis' = <<>>
         /\ first' = Remember("detect_from_text",
                              [title |-> o.title, content |-> o.content],
                              o.r.result)
         /\ UNCHANGED event

ProcessStdin ==
    \E o \in {process_stdin(stdin)} :
        /\ stdin_returned' = IF o.error = NoValue THEN <<o.r.result>>
                             ELSE <<>>
        /\ cli_error' = o.error
        /\ DetectorAfter(o)
        /\ UNCHANGED <<argv, stdin, terminal, printed, branch, batch_vars,
                        thread_vars, agent_vars>>

MaxLines == 2

StdinLines ==
    {"", "Jakarta", "flood killed ten", "Jakarta flood killed ten", " ",
     "2024", "null", "[]", "\"Jakarta flood killed ten\"", "{not json",
     "{\"title\": \"Jakarta\", \"content\": \"flood killed ten\"}",
     "{\"title\": \"Jakarta\", \"summary\": \"flood killed ten\"}"}

StdinTexts ==
    {JoinLines(lines) :
        lines \in UNION {[1..n -> StdinLines] : n \in 0..MaxLines}}

InitStdin ==
    /\ event = [title |-> "", content |-> ""]
    /\ Construct
    /\ NoBatch
    /\ NoThreads
    /\ NoAgents
    /\ argv = NoArgs
    /\ stdin \in StdinTexts
    /\ terminal = <<>>
    /\ printed = <<>>
    /\ branch = NoValue
    /\ stdin_returned = <<>>
    /\ cli_error = NoValue

NextStdin == ProcessStdin

SpecStdin == InitStdin /\ [][NextStdin]_vars

\* one record given to both modes: as the only element of the input file
\* of the batch, and as one line of JSON on standard input
InitContract ==
    /\ event = [title |-> "", content |-> ""]
    /\ Construct
    /\ NoThreads
    /\ NoAgents
    /\ \E obj \in StdinObjects :
           /\ events = <<obj>>
           /\ stdin = Dumps(obj)
    /\ input_json = "array"
    /\ junk_at = 0
    /\ error = NoValue
    /\ output_file = <<>>
    /\ results = <<>>
    /\ written = <<>>
    /\ batch_calls = <<>>
    /\ argv = NoArgs
    /\ terminal = <<>>
    /\ printed = <<>>
    /\ branch = NoValue
    /\ stdin_returned = <<>>
    /\ cli_error = NoValue

NextContract ==
    \/ ProcessStdin
    \/ ProcessJsonFile

SpecContract == InitContract /\ [][NextContract]_vars

(***************************************************************************)
(* pipeline.py: interactive_mode and main.  An entry of printed is the     *)
(* text of one print, the value of one print(json.dumps(...)), or the help *)
(* of the parser.                                                          *)
(***************************************************************************)
Text(s) == [kind |-> "text", text |-> s]

RECURSIVE Repeat(_, _)
Repeat(c, n) == IF n = 0 THEN "" ELSE c \o Repeat(c, n - 1)

\* ', '.join(keywords)
RECURSIVE JoinComma(_)
JoinComma(keywords) ==
    IF keywords = <<>> THEN ""
    ELSE IF Len(keywords) = 1 THEN keywords[1]
    ELSE keywords[1] \o ", " \o JoinComma(Tail(keywords))

\* the prints for the entries of analysis['criteria_matches']
MatchLines(matches) ==
    IF matches = <<>> THEN <<>>
    ELSE <<Text("Matched criteria:")>>
         \o [i \in 1..Len(matches) |->
                Text("  - " \o matches[i].criterion \o ": "
                         \o JoinComma(matches[i].matched_keywords))]

\* the inner loop: the lines up to the first empty one; input() raises
\* EOFError when the lines run out
RECURSIVE ContentLines(_, _, _)
ContentLines(lines, i, content_lines) ==
    IF i > Len(lines) THEN [error |-> "EOFError"]
    ELSE IF lines[i] = ""
    THEN [error |-> NoValue, content_lines |-> content_lines, next |-> i + 1]
    ELSE ContentLines(lines, i + 1, Append(content_lines, lines[i]))

\* the while loop of interactive_mode from line i of the terminal: what
\* is printed, the last event analysed, and the exception that ends it
RECURSIVE InteractiveLoop(_, _, _, _)
InteractiveLoop(lines, i, out, last) ==
    LET out1 == Append(out, Text(Repeat("-", 40)))
    IN  IF i > Len(lines)
        THEN [error |-> "EOFError", printed |-> out1, last |-> last]
        ELSE LET title == Strip(lines[i])
             IN  IF Lower(title) = "quit"
                 THEN [error |-> NoValue, printed |-> out1, last |-> last]
                 ELSE LET out2 == Append(out1,
                              Text("Content (press Enter twice to finish):"))
                          body == ContentLines(lines, i + 1, <<>>)
                      IN  IF body.error # NoValue
                          THEN [error |-> body.error, printed |-> out2,
                                last |-> last]
                          ELSE LET content == JoinLines(body.content_lines)
                                   r == detect_from_text(title, content)
                                   a == get_detailed_analysis(title, content)
                               IN  InteractiveLoop(lines, body.next,
                                       Append(out2,
                                              Text("\nResult: " \o r.result))
                                           \o MatchLines(a.criteria_matches),
                                       <<[title |-> title,
                                          content |-> content, a |-> a]>>)

interactive_mode(lines) ==
    InteractiveLoop(lines, 1,
        <<Text(Repeat("=", 60)),
          Text("NEGATIVE HIGH-IMPACT EVENT DETECTOR"),
          Text(Repeat("=", 60)),
          Text("Enter event details (type 'quit' to exit)"),
          Text("")>>,
        <<>>)

\* os.path.basename
RECURSIVE Basename(_)
Basename(path) ==
    IF \E i \in 1..Len(path) : CharAt(path, i) = "/"
    THEN Basename(SubSeq(path,
             1 + CHOOSE i \in 1..Len(path) : CharAt(path, i) = "/",
             Len(path)))
    ELSE path

\* args.output or f"data/processed_{os.path.basename(args.input)}"
OutputFor(args) ==
    IF Truthy(args.output) THEN args.output[1]
    ELSE "data/processed_" \o Basename(args.input[1])

\* what get_detailed_analysis leaves in the detector's variables
AnalysedAfter(title, content, a) ==
    /\ op' = "get_detailed_analysis"
    /\ arg' = [title |-> title, content |-> content]
    /\ result' = NoValue
    /\ calls' = <<>>
    /\ criteria_score' = NoScore
    /\ analysis' = <<a>>
    /\ first' = Remember("get_detailed_analysis",
                         [title |-> title, content |-> content], a)
    /\ UNCHANGED event

\* if args.interactive:
MainInteractive ==
    \E o \in {interactive_mode(terminal)} :
        /\ branch' = "interactive"
        /\ printed' = o.printed
        /\ cli_error' = o.error
        /\ IF o.last = <<>> THEN UNCHANGED detector_vars
           ELSE AnalysedAfter(o.last[1].title, o.last[1].content,
                              o.last[1].a)
        /\ UNCHANGED <<stdin_returned, batch_vars>>

\* elif args.stdin:
MainStdin ==
    \E o \in {process_stdin(stdin)} :
        /\ branch' = "stdin"
        /\ stdin_returned' = IF o.error = NoValue THEN <<o.r.result>>
                             ELSE <<>>
        /\ printed' = IF o.error = NoValue THEN <<Text(o.r.result)>>
                      ELSE <<>>
        /\ cli_error' = o.error
        /\ DetectorAfter(o)
        /\ UNCHANGED batch_vars

\* elif args.title and args.content:
MainSingle ==
    LET title == argv.title[1]
        content == argv.content[1]
    IN  /\ branch' = "single"
        /\ cli_error' = NoValue
        /\ IF argv.detailed
           THEN \E a \in {get_detailed_analysis(title, content)} :
                    /\ printed' = <<[kind |-> "json", value |-> a]>>
                    /\ AnalysedAfter(title, content, a)
           ELSE \E r \in {detect_from_text(title, content)} :
                    /\ printed' = <<Text(r.result)>>
                    /\ DetectorAfter([error |-> NoValue, title |-> title,
                                      content |-> content, r |-> r])
        /\ UNCHANGED <<stdin_returned, batch_vars>>

\* the number of results with the verdict "yes"
RECURSIVE CountYes(_)
CountYes(list) ==
    IF list = <<>> THEN 0
    ELSE (IF Head(list).negative_high_impact = "yes" THEN 1 ELSE 0)
             + CountYes(Tail(list))

\* elif args.input:
MainInput ==
    /\ branch' = "input"
    /\ output_file' = <<OutputFor(argv)>>
    /\ BatchRun(output_file')
    /\ cli_error' = error'
    /\ printed' =
           IF error' # NoValue THEN <<>>
           ELSE <<Text("Processed " \o ToString(Len(results'[1]))
                           \o " events"),
                  Text("  Negative high-impact: "
                           \o ToString(CountYes(results'[1]))),
                  Text("  Not qualifying: "
                           \o ToString(Len(results'[1])
                                           - CountYes(results'[1]))),
                  Text("Output saved to: " \o output_file'[1])>>
    /\ UNCHANGED stdin_returned

\* else: parser.print_help()
MainHelp ==
    /\ branch' = "help"
    /\ printed' = <<[kind |-> "help"]>>
    /\ cli_error' = NoValue
    /\ UNCHANGED <<stdin_returned, detector_vars, batch_vars>>

\* main(): the branch for the arguments
Main ==
    /\ IF argv.interactive THEN MainInteractive
       ELSE IF argv.stdin THEN MainStdin
       ELSE IF Truthy(argv.title) /\ Truthy(argv.content) THEN MainSingle
       ELSE IF Truthy(argv.input) THEN MainInput
       ELSE MainHelp
    /\ UNCHANGED <<argv, stdin, terminal, thread_vars, agent_vars>>

OptionalOf(S) == {<<>>} \cup {<<x>> : x \in S}

\* the command lines
ArgSets ==
    [interactive : BOOLEAN, stdin : BOOLEAN, detailed : BOOLEAN,
     title : OptionalOf({"", "Jakarta flood killed ten"}),
     content : OptionalOf({"", "talks held"}),
     input : OptionalOf({"data/events.json"}),
     output : OptionalOf({"out/verdicts.json"})]

InitMain ==
    /\ event = [title |-> "", content |-> ""]
    /\ Construct
    /\ NoThreads
    /\ NoAgents
    /\ input_json \in {"array", "invalid"}
    /\ events = IF input_json = "array"
                THEN <<[title |-> "Jakarta", summary |-> "flood killed ten"],
                       [id |-> "7"]>>
                ELSE <<>>
    /\ junk_at = 0
    /\ error = NoValue
    /\ output_file = <<>>
    /\ results = <<>>
    /\ written = <<>>
    /\ batch_calls = <<>>
    /\ argv \in ArgSets
    /\ stdin \in {"Jakarta\nflood killed ten", "2024"}
    /\ terminal \in {<<"Quit ">>,
                      <<"Jakarta", "port closed after blackout",
                        "flood killed ten", "", "quit">>,
                      <<"Jakarta">>}
    /\ printed = <<>>
    /\ branch = NoValue
    /\ stdin_returned = <<>>
    /\ cli_error = NoValue

NextMain == Main

SpecMain == InitMain /\ [][NextMain]_vars

(***************************************************************************)
(* idxchannel/agents/storage.py: StorageAgent.save merges the articles of  *)
(* a run into the file of the day.                                         *)
(***************************************************************************)

\* os.path.join(self.data_dir, f"{today}_idxchannel.json"), data_dir "data"
Filepath(d) == "data" \o "/" \o Days[d] \o "_idxchannel.json"

\* article.get("url", "")
UrlOf(article) == Get(article, "url")

\* variant: a URL added from new is not remembered
RECURSIVE MergeLoop_forgets_added(_, _, _, _)
MergeLoop_forgets_added(new, i, merged, existing_urls) ==
    IF i > Len(new) THEN merged
    ELSE IF UrlOf(new[i]) # "" /\ UrlOf(new[i]) \notin existing_urls
    THEN MergeLoop_forgets_added(new, i + 1, Append(merged, new[i]),
                                 existing_urls)
    ELSE IF UrlOf(new[i]) = ""
    THEN MergeLoop_forgets_added(new, i + 1, Append(merged, new[i]),
                                 existing_urls)
    ELSE MergeLoop_forgets_added(new, i + 1, merged, existing_urls)

\* for article in new: appended when its URL is new, or when it has none
RECURSIVE MergeLoop(_, _, _, _)
MergeLoop(new, i, merged, existing_urls) ==
    IF i > Len(new) THEN merged
    ELSE IF UrlOf(new[i]) # "" /\ UrlOf(new[i]) \notin existing_urls
    THEN MergeLoop(new, i + 1, Append(merged, new[i]),
                   existing_urls \cup {UrlOf(new[i])})
    ELSE IF UrlOf(new[i]) = ""
    THEN MergeLoop(new, i + 1, Append(merged, new[i]), existing_urls)
    ELSE MergeLoop(new, i + 1, merged, existing_urls)

\* StorageAgent._merge_articles(existing, new)
merge_articles(existing, new) ==
    MergeLoop(new, 1, existing,
              {UrlOf(existing[i]) : i \in 1..Len(existing)} \ {""})

\* datetime.now().isoformat() on day d
Now(d) == Days[d] \o "T09:00:00.000001"

\* the articles with processed_at added where it is missing
Stamped(list, now) ==
    [i \in 1..Len(list) |->
        IF "processed_at" \in DOMAIN list[i] THEN list[i]
        ELSE Merge(list[i], [processed_at |-> now])]

\* existing_articles: the list in the file, [] when the file is missing or
\* does not load
ExistingArticles(file) ==
    IF file.exists /\ file.loads THEN file.articles ELSE <<>>

MaxSaves == 2

\* StorageAgent.save(articles)
Save ==
    /\ Len(returned) < MaxSaves
    /\ \E new \in {Stamped(articles, Now(today))} :
           /\ articles' = new
           /\ files' = [files EXCEPT ![today] =
                  [exists |-> TRUE, loads |-> TRUE,
                   articles |->
                       merge_articles(ExistingArticles(files[today]), new)]]
    /\ returned' = Append(returned, Filepath(today))
    /\ UNCHANGED <<today, scraper_vars, detector_vars, batch_vars,
                   thread_vars, cli_vars>>

\* the date changes between two saves
Midnight ==
    /\ today < Len(Days)
    /\ today' = today + 1
    /\ UNCHANGED <<files, articles, returned, scraper_vars, detector_vars,
                   batch_vars, thread_vars, cli_vars>>

\* the articles of the runs: two with one URL, one with another, one with
\* an empty URL and one with none
ArticlePool ==
    {[url |-> "https://idx.example/1", title |-> "IHSG falls"],
     [url |-> "https://idx.example/1", title |-> "IHSG falls, updated"],
     [url |-> "https://idx.example/2", title |-> "IHSG falls"],
     [url |-> "", title |-> "Rupiah weakens"],
     [title |-> "Rupiah weakens"]}

MaxStored == 2

MaxNew == 2

\* the sequences over S of at most n elements
SeqsUpTo(S, n) == UNION {[1..k -> S] : k \in 0..n}

\* a file that an earlier run wrote
EarlierStamp == "2026-11-05T09:00:00.000001"

StoredPool == {Merge(a, [processed_at |-> EarlierStamp]) : a \in ArticlePool}

InitStore ==
    /\ event = [title |-> "", content |-> ""]
    /\ Construct
    /\ NoBatch
    /\ NoThreads
    /\ NoCli
    /\ NoScraper
    /\ today = 1
    /\ \E file \in {NoFile, [exists |-> TRUE, loads |-> FALSE,
                               articles |-> <<>>]}
                    \cup {[exists |-> TRUE, loads |-> TRUE, articles |-> l] :
                             l \in SeqsUpTo(StoredPool, MaxStored)} :
           files = [d \in 1..Len(Days) |-> IF d = 1 THEN file ELSE NoFile]
    /\ articles \in SeqsUpTo(ArticlePool, MaxNew)
    /\ returned = <<>>

NextStore == Save \/ Midnight

SpecStore == InitStore /\ [][NextStore]_vars

(***************************************************************************)
(* idxchannel/agents/article_scraper.py: scrape_article, one step for the  *)
(* call and one for each attempt of the loop.                              *)
(***************************************************************************)

\* scrape_article(u) is called; with range(0) empty the loop is skipped and
\* line 56 returns None
ScrapeArticle(u) ==
    /\ scrape_pc \in {"idle", "done"}
    /\ url' = u
    /\ attempt' = 0
    /\ fetched' = <<>>
    /\ slept' = <<>>
    /\ IF max_retries = 0
       THEN /\ scrape_pc' = "done"
            /\ scraped' = [returned |-> TRUE, value |-> <<>>]
       ELSE /\ scrape_pc' = "get"
            /\ scraped' = NotReturned
    /\ UNCHANGED <<max_retries, delay, store_vars, detector_vars,
                   batch_vars, thread_vars, cli_vars>>

\* the try block runs to its end: the page is fetched and parsed, the
\* call sleeps delay and returns the result
AttemptSucceeds(page) ==
    /\ scrape_pc = "get"
    /\ fetched' = Append(fetched, <<page>>)
    /\ slept' = Append(slept, delay)
    /\ scraped' = [returned |-> TRUE, value |-> <<page>>]
    /\ scrape_pc' = "done"
    /\ UNCHANGED <<max_retries, delay, url, attempt, store_vars,
                   detector_vars, batch_vars, thread_vars, cli_vars>>

\* variant: the back-off wait is made after the last attempt too
AttemptFails_always_waits ==
    /\ scrape_pc = "get"
    /\ fetched' = Append(fetched, <<>>)
    /\ slept' = Append(slept, delay * (attempt + 1))
    /\ IF attempt = max_retries - 1
       THEN /\ scraped' = [returned |-> TRUE, value |-> <<>>]
            /\ scrape_pc' = "done"
            /\ UNCHANGED attempt
       ELSE /\ attempt' = attempt + 1
            /\ UNCHANGED <<scraped, scrape_pc>>
    /\ UNCHANGED <<max_retries, delay, url, store_vars, detector_vars,
                   batch_vars, thread_vars, cli_vars>>

\* the try block raises: None after the last attempt, else the back-off
\* wait and the next attempt
AttemptFails ==
    /\ scrape_pc = "get"
    /\ fetched' = Append(fetched, <<>>)
    /\ IF attempt = max_retries - 1
       THEN /\ scraped' = [returned |-> TRUE, value |-> <<>>]
            /\ scrape_pc' = "done"
            /\ UNCHANGED <<attempt, slept>>
       ELSE /\ slept' = Append(slept, delay * (attempt + 1))
            /\ attempt' = attempt + 1
            /\ UNCHANGED <<scraped, scrape_pc>>
    /\ UNCHANGED <<max_retries, delay, url, store_vars, detector_vars,
                   batch_vars, thread_vars, cli_vars>>

MaxRetries == 3

\* the values of delay, in seconds
Delays == {0, 1, 2}

Urls == {"https://idx.example/1", "https://idx.example/2"}

\* the results of a page fetched and parsed
Pages ==
    {[content |-> "IHSG falls", author |-> "", published_date |-> ""],
     [content |-> "", author |-> "Redaksi",
      published_date |-> "2026-11-06"]}

InitScraper ==
    /\ event = [title |-> "", content |-> ""]
    /\ Construct
    /\ NoBatch
    /\ NoThreads
    /\ NoCli
    /\ NoStore
    /\ max_retries \in 0..MaxRetries
    /\ delay \in Delays
    /\ scrape_pc = "idle"
    /\ url = ""
    /\ attempt = 0
    /\ fetched = <<>>
    /\ slept = <<>>
    /\ scraped = NotReturned

Attempt == AttemptFails \/ \E page \in Pages : AttemptSucceeds(page)

NextScraper ==
    \/ \E u \in Urls : ScrapeArticle(u)
    \/ \E page \in Pages : AttemptSucceeds(page)
    \/ AttemptFails

\* session.get has a timeout, so an attempt that began ends
SpecScraper ==
    InitScraper /\ [][NextScraper]_vars /\ WF_vars(Attempt)

NextThreads ==
    \E t \in Threads :
        \/ \E e \in ThreadEvents : CallDetect(t, e)
        \/ CheckGeographic(t)
        \/ CheckConfirmed(t)
        \/ CheckExclusion(t)
        \/ EvaluateCriteria(t)
        \/ \E e \in ThreadEvents : CallAnalysis(t, e)
        \/ AnalysisResult(t)
        \/ AnalysisGates(t)
        \/ AnalysisCriteria(t)

SpecThreads == InitThreads /\ [][NextThreads]_vars

(***************************************************************************)
(* Properties.                                                              *)
(***************************************************************************)
\* the raw and the normalized text of the last call
RawText == arg.title \o " " \o arg.content

CallText == Lower(RawText)

Detected == op = "detect_from_text"

Analysed == op = "get_detailed_analysis"

\* kw occurs in text, by direct search
Occurs(text, kw) ==
    \E i \in 1..(Len(text) - Len(kw) + 1) :
        SubSeq(text, i, i + Len(kw) - 1) = kw

\* some target country occurs in raw, compared without regard to case
CountryOccurs(raw) ==
    LET folded == Lower(raw)
    IN  \E country \in TARGET_COUNTRIES : Occurs(folded, country)

\* the categories with at least one keyword in text
MatchedCategories(text) ==
    {c \in 1..Len(CRITERIA_KEYWORDS) :
        \E k \in 1..Len(CRITERIA_KEYWORDS[c].keywords) :
            Occurs(text, CRITERIA_KEYWORDS[c].keywords[k])}

RECURSIVE WeightSum(_)
WeightSum(cats) ==
    IF cats = {} THEN 0
    ELSE LET c == CHOOSE x \in cats : TRUE
         IN  CRITERIA_KEYWORDS[c].weight + WeightSum(cats \ {c})

\* the number of occurrences of the keywords of category c in text
Occurrences(text, c) ==
    Cardinality({<<k, i>> \in (1..Len(CRITERIA_KEYWORDS[c].keywords))
                                  \X (1..Len(text)) :
                    LiteralAt(text, i, CRITERIA_KEYWORDS[c].keywords[k])})

\* C1: detect_from_text returns "yes" exactly when, on the normalized text,
\* the geographic gate and the confirmation gate are true, the exclusion gate
\* is false and the score is at least 2.0; otherwise it returns "no".
C1_YesIffAllStagesPass ==
    Detected =>
        LET text == CallText
        IN  /\ result \in {"yes", "no"}
            /\ (result = "yes") <=>
                  /\ _check_geographic_requirement(text)
                  /\ _check_confirmed_outcome(text)
                  /\ ~_check_exclusion_patterns(text)
                  /\ _evaluate_criteria(text) >= 20

C1_Witness == Detected /\ result = "yes"

\* C2: when no target country occurs in title + " " + content, whatever
\* the case of the letters, the verdict is "no", whatever the other stages
\* yield.
C2_GeographicNecessity ==
    (Detected /\ ~CountryOccurs(RawText)) => result = "no"

C2_Witness ==
    /\ Detected
    /\ ~CountryOccurs(RawText)
    /\ _check_confirmed_outcome(CallText)
    /\ ~_check_exclusion_patterns(CallText)
    /\ _evaluate_criteria(CallText) >= 20
    /\ result = "no"

\* C3: when the geographic and the confirmation gate pass and the exclusion
\* patterns match at least 3 times in all, the verdict is "no", also with a
\* score of 2.0 or more.
C3_ExclusionDominance ==
    Detected =>
        LET text == CallText
        IN  ( /\ _check_geographic_requirement(text)
              /\ _check_confirmed_outcome(text)
              /\ exclusion_count(text) >= 3 ) => result = "no"

C3_Witness ==
    /\ Detected
    /\ _check_geographic_requirement(CallText)
    /\ _check_confirmed_outcome(CallText)
    /\ exclusion_count(CallText) = 3
    /\ _evaluate_criteria(CallText) >= 20
    /\ result = "no"

\* C4: when all three gates pass, the verdict is "yes" for a score of 2.0
\* or more and "no" below 2.0; so one matched category of weight 2.0 or more
\* is enough, and structural_escalation alone (1.5) gives "no".
C4_Threshold ==
    Detected =>
        LET text == CallText
            score == _evaluate_criteria(text)
            cats == MatchedCategories(text)
        IN  ( /\ _check_geographic_requirement(text)
              /\ _check_confirmed_outcome(text)
              /\ ~_check_exclusion_patterns(text) ) =>
                /\ score >= 20 => result = "yes"
                /\ score < 20 => result = "no"
                /\ \A c \in cats :
                       (cats = {c} /\ CRITERIA_KEYWORDS[c].weight >= 20)
                           => result = "yes"
                /\ \A c \in cats :
                       (cats = {c} /\ CRITERIA_KEYWORDS[c].criterion
                                          = "structural_escalation")
                           => result = "no"

C4_Witness ==
    /\ Detected
    /\ calls = <<"geographic", "confirmed", "exclusion", "criteria">>
    /\ criteria_score = 20
    /\ result = "yes"

\* C5: for every title and content, the empty strings included,
\* detect_from_text returns one of the two strings "yes" and "no".
C5_TwoVerdicts == Detected => result \in {"yes", "no"}

C5_Witness ==
    /\ Detected
    /\ arg = [title |-> "", content |-> ""]
    /\ result = "no"

Recasings == {"upper", "lower", "alternate"}

\* str.upper on one character: a-z to A-Z, dotless i to I
ToUpperTable ==
    "a" :> "A" @@ "b" :> "B" @@ "c" :> "C" @@ "d" :> "D" @@ "e" :> "E" @@
    "f" :> "F" @@ "g" :> "G" @@ "h" :> "H" @@ "i" :> "I" @@ "j" :> "J" @@
    "k" :> "K" @@ "l" :> "L" @@ "m" :> "M" @@ "n" :> "N" @@ "o" :> "O" @@
    "p" :> "P" @@ "q" :> "Q" @@ "r" :> "R" @@ "s" :> "S" @@ "t" :> "T" @@
    "u" :> "U" @@ "v" :> "V" @@ "w" :> "W" @@ "x" :> "X" @@ "y" :> "Y" @@
    "z" :> "Z"

UpperChar(c) ==
    IF c \in DOMAIN ToUpperTable THEN ToUpperTable[c]
    ELSE IF c = DotlessI THEN "I" ELSE c

RECURSIVE RecaseFrom(_, _, _, _)
RecaseFrom(s, i, mode, asciiOnly) ==
    IF i > Len(s) THEN ""
    ELSE LET c == CharAt(s, i)
             up == mode = "upper" \/ (mode = "alternate" /\ i % 2 = 1)
         IN  (IF asciiOnly /\ c = DotlessI THEN c
              ELSE IF up THEN UpperChar(c) ELSE LowerChar(c))
                 \o RecaseFrom(s, i + 1, mode, asciiOnly)

\* s with every letter put to the case the mode says
Recase(s, mode) == RecaseFrom(s, 1, mode, FALSE)

\* s with every ASCII letter put to the case the mode says
RecaseAscii(s, mode) == RecaseFrom(s, 1, mode, TRUE)

\* C7 as stated: the verdict and the total score are the same for every
\* re-casing of the letters of title and content (the total score of
\* get_detailed_analysis is the one of its category loop).
C7_AnyRecasing ==
    /\ Detected =>
          \A mode \in Recasings :
              detect_from_text(Recase(arg.title, mode),
                               Recase(arg.content, mode)).result = result
    /\ Analysed =>
          \A mode \in Recasings :
              analysis_criteria(Recase(arg.title, mode),
                                Recase(arg.content, mode)).total_score
                  = analysis[1].total_score

\* C7: the verdict and the total score are the same for every re-casing of
\* the ASCII letters of title and content (the total score of
\* get_detailed_analysis is the one of its category loop).
C7_AsciiRecasing ==
    /\ Detected =>
          \A mode \in Recasings :
              detect_from_text(RecaseAscii(arg.title, mode),
                               RecaseAscii(arg.content, mode)).result
                  = result
    /\ Analysed =>
          \A mode \in Recasings :
              analysis_criteria(RecaseAscii(arg.title, mode),
                                RecaseAscii(arg.content, mode)).total_score
                  = analysis[1].total_score

C7_Witness ==
    /\ Analysed
    /\ analysis[1].result = "yes"
    /\ analysis[1].total_score > 0
    /\ \A mode \in Recasings : RecaseAscii(RawText, mode) # RawText

\* C8: detect runs the geographic gate, the confirmation gate, the
\* exclusion gate and the scorer in this order, and stops at the first gate
\* that fails.
C8_StageOrder ==
    Detected =>
        LET n == Len(calls)
            text == CallText
            geographic == _check_geographic_requirement(text)
            confirmed == _check_confirmed_outcome(text)
        IN  /\ n \in 1..4
            /\ calls = SubSeq(<<"geographic", "confirmed", "exclusion",
                                "criteria">>, 1, n)
            /\ (n >= 2) <=> geographic
            /\ (n >= 3) <=> (geographic /\ confirmed)
            /\ (n = 4) <=> ( /\ geographic
                             /\ confirmed
                             /\ ~_check_exclusion_patterns(text) )
            /\ (criteria_score # NoScore) <=> (n = 4)

C8_Witness ==
    /\ Detected
    /\ calls = <<"geographic", "confirmed">>
    /\ ~_check_exclusion_patterns(CallText)
    /\ _evaluate_criteria(CallText) >= 20
    /\ result = "no"

\* C9: the score is the sum of the weights of the categories that have a
\* keyword in the normalized text, each category counted once however many
\* of its keywords occur and however often.
C9_ScorerCap ==
    (Detected /\ criteria_score # NoScore) =>
        criteria_score = WeightSum(MatchedCategories(CallText))

C9_Witness ==
    /\ Detected
    /\ criteria_score = 90
    /\ \E c \in MatchedCategories(CallText) : Occurrences(CallText, c) >= 4

\* C10: the record of get_detailed_analysis holds the verdict of
\* detect_from_text for the same event, and that verdict is "yes" exactly
\* when geographic_match and confirmed_outcome are true, excluded is false
\* and total_score is at least 2.0; the fields are filled in for every event.
C10_AnalysisAgreesWithVerdict ==
    Analysed =>
        LET r == analysis[1]
        IN  /\ (arg = event /\ first.detect_from_text # <<>>)
                  => r.result = first.detect_from_text[1]
            /\ r.result \in {"yes", "no"}
            /\ r.geographic_match \in BOOLEAN
            /\ r.confirmed_outcome \in BOOLEAN
            /\ r.excluded \in BOOLEAN
            /\ (r.result = "yes") <=>
                  /\ r.geographic_match
                  /\ r.confirmed_outcome
                  /\ ~r.excluded
                  /\ r.total_score >= 20

C10_Witness ==
    /\ Analysed
    /\ first.detect_from_text = <<"no">>
    /\ ~analysis[1].geographic_match
    /\ analysis[1].confirmed_outcome
    /\ ~analysis[1].excluded
    /\ analysis[1].total_score >= 20

\* the i-th element of a set of numbers, in increasing order
NthOf(S, i) == CHOOSE x \in S : Cardinality({y \in S : y < x}) = i - 1

\* the indices of the keywords of category c that occur in text
OccurringKeywords(text, c) ==
    {k \in 1..Len(CRITERIA_KEYWORDS[c].keywords) :
        Occurs(text, CRITERIA_KEYWORDS[c].keywords[k])}

RECURSIVE SumOfWeights(_)
SumOfWeights(entries) ==
    IF entries = <<>> THEN 0
    ELSE Head(entries).weight + SumOfWeights(Tail(entries))

\* C11: criteria_matches of get_detailed_analysis lists exactly the
\* categories with a keyword in the text, each once and in table order;
\* an entry shows the first keywords of its category that occur, at least 1
\* and at most 3 of them in list order, and the weight of the category;
\* total_score is the sum of the weights of the entries.
C11_AnalysisShape ==
    Analysed =>
        LET r == analysis[1]
            text == CallText
            cats == MatchedCategories(text)
            entries == r.criteria_matches
        IN  /\ Len(entries) = Cardinality(cats)
            /\ \A i, j \in 1..Len(entries) :
                   i # j => entries[i].criterion # entries[j].criterion
            /\ \A i \in 1..Len(entries) :
                   LET c == NthOf(cats, i)
                       found == OccurringKeywords(text, c)
                       shown == entries[i].matched_keywords
                   IN  /\ entries[i].criterion = CRITERIA_KEYWORDS[c].criterion
                       /\ entries[i].weight = CRITERIA_KEYWORDS[c].weight
                       /\ Len(shown) \in 1..3
                       /\ Len(shown) = IF Cardinality(found) < 3
                                       THEN Cardinality(found) ELSE 3
                       /\ \A k \in 1..Len(shown) :
                              shown[k] = CRITERIA_KEYWORDS[c].keywords[
                                             NthOf(found, k)]
            /\ r.total_score = SumOfWeights(entries)

C11_Witness ==
    /\ Analysed
    /\ Len(analysis[1].criteria_matches) >= 3
    /\ \E i \in 1..Len(analysis[1].criteria_matches) :
           /\ Len(analysis[1].criteria_matches[i].matched_keywords) = 3
           /\ Cardinality(OccurringKeywords(CallText,
                   CHOOSE c \in 1..Len(CRITERIA_KEYWORDS) :
                       CRITERIA_KEYWORDS[c].criterion
                           = analysis[1].criteria_matches[i].criterion)) > 3

\* the indices at which kw occurs in text, by direct search
OccurrencesOf(text, kw) ==
    {i \in 1..(Len(text) - Len(kw) + 1) :
        SubSeq(text, i, i + Len(kw) - 1) = kw}

\* C12: the geographic gate is true exactly when one of the 15 entries of
\* TARGET_COUNTRIES is a substring of the normalized text, also when the
\* entry lies inside a longer word; detect stops after the gate exactly
\* when it is false.
C12_GeographicGate ==
    LET some == \E country \in TARGET_COUNTRIES :
                    OccurrencesOf(CallText, country) # {}
    IN  /\ Cardinality(TARGET_COUNTRIES) = 15
        /\ Analysed => (analysis[1].geographic_match <=> some)
        /\ Detected => ((calls = <<"geographic">>) <=> ~some)

C12_Witness ==
    /\ Analysed
    /\ analysis[1].geographic_match
    /\ \A country \in TARGET_COUNTRIES :
           \A i \in OccurrencesOf(CallText, country) :
               IsWordAt(CallText, i + Len(country))

(***************************************************************************)
(* The vocabulary families read word by word, for a text of letters and    *)
(* single spaces: a word is a maximal run of letters.                       *)
(***************************************************************************)
LetterChars == CharsOf(LowerAlpha) \cup {DotlessI}

PlainText(text) ==
    /\ \A i \in 1..Len(text) : CharAt(text, i) \in LetterChars \cup {" "}
    /\ \A i \in 1..(Len(text) - 1) : SubSeq(text, i, i + 1) # "  "

\* the words of text, in order
Words(text) ==
    LET begins == {i \in 1..Len(text) :
                      /\ CharAt(text, i) # " "
                      /\ (i = 1 \/ CharAt(text, i - 1) = " ")}
        EndOf(i) == CHOOSE j \in i..Len(text) :
                        /\ \A m \in i..j : CharAt(text, m) # " "
                        /\ (j = Len(text) \/ CharAt(text, j + 1) = " ")
    IN  [k \in 1..Cardinality(begins) |->
            LET i == NthOf(begins, k) IN SubSeq(text, i, EndOf(i))]

StartsWithAny(word, prefixes) ==
    \E k \in 1..Len(prefixes) :
        /\ Len(word) >= Len(prefixes[k])
        /\ SubSeq(word, 1, Len(prefixes[k])) = prefixes[k]

\* the words from index n on begin with "(of) w", w one of the words ahead
AheadAt(words, n, ahead) ==
    \/ n <= Len(words) /\ StartsWithAny(words[n], ahead)
    \/ /\ n + 1 <= Len(words)
       /\ words[n] = "of"
       /\ StartsWithAny(words[n + 1], ahead)

\* an alternative of the family pat stands at word j (followed by a word of
\* its second group, not followed by its lookahead)
FamilyAtWord(pat, words, j) ==
    \E a \in 1..Len(pat.first) :
        LET phrase == Words(pat.first[a])
            n == j + Len(phrase)
        IN  /\ n - 1 <= Len(words)
            /\ SubSeq(words, j, n - 1) = phrase
            /\ \/ pat.second = <<>>
               \/ /\ n <= Len(words)
                  /\ \E b \in 1..Len(pat.second) : pat.second[b] = words[n]
            /\ \/ pat.ahead = <<>>
               \/ ~AheadAt(words, n, pat.ahead)

\* the words at which the family stands
FamilyWords(pat, words) ==
    {j \in 1..Len(words) : FamilyAtWord(pat, words, j)}

\* some family of the list stands somewhere
AnyFamily(patterns, words) ==
    \E k \in 1..Len(patterns) : FamilyWords(patterns[k], words) # {}

ExplicitConfirmation(text) ==
    AnyFamily(CONFIRMATION_PATTERNS, Words(RegexFold(text)))

PastTenseOutcome(text) ==
    AnyFamily(past_tense_indicators, Words(RegexFold(text)))

DisasterImpact(text) ==
    \E k \in 1..Len(disaster_indicators) :
        OccurrencesOf(text, disaster_indicators[k]) # {}

\* C13: the confirmation gate is true exactly when the explicit
\* confirmation vocabulary, the past-tense outcome vocabulary or a disaster
\* phrase occurs in the text: any one family suffices, whatever the other
\* two yield.
C13_ConfirmationGate ==
    (Analysed /\ PlainText(CallText)) =>
        (analysis[1].confirmed_outcome <=>
            \/ ExplicitConfirmation(CallText)
            \/ PastTenseOutcome(CallText)
            \/ DisasterImpact(CallText))

C13_Witness ==
    /\ Analysed
    /\ PlainText(CallText)
    /\ analysis[1].confirmed_outcome
    /\ ~ExplicitConfirmation(CallText)
    /\ PastTenseOutcome(CallText)
    /\ ~DisasterImpact(CallText)

\* the number of places at which the k-th exclusion family stands in text
FamilyTally(text, k) ==
    Cardinality(FamilyWords(EXCLUSION_PATTERNS[k], Words(RegexFold(text))))

\* C14: the exclusion gate is true exactly when the matches of the five
\* exclusion families, counted family by family over the whole text and
\* added up, are 3 or more.
C14_ExclusionGate ==
    (Analysed /\ PlainText(CallText)) =>
        /\ Len(EXCLUSION_PATTERNS) = 5
        /\ analysis[1].excluded <=>
               FamilyTally(CallText, 1) + FamilyTally(CallText, 2)
                   + FamilyTally(CallText, 3) + FamilyTally(CallText, 4)
                   + FamilyTally(CallText, 5) >= 3

C14_Witness ==
    /\ Analysed
    /\ PlainText(CallText)
    /\ analysis[1].excluded
    /\ FamilyTally(CallText, 1) = 1
    /\ FamilyTally(CallText, 3) = 1
    /\ FamilyTally(CallText, 5) = 1
    /\ FamilyTally(CallText, 2) + FamilyTally(CallText, 4) = 0

WarningTerms == <<"warns", "warning", "caution", "advisory", "alert">>

\* the warning terms of text that count when a term followed by "(of) w",
\* w one of the words ahead, does not
WarningTally(text, ahead) ==
    LET words == Words(RegexFold(text))
    IN  Cardinality({j \in 1..Len(words) :
                        /\ \E k \in 1..Len(WarningTerms) :
                               words[j] = WarningTerms[k]
                        /\ ~AheadAt(words, j + 1, ahead)})

\* what the warning family adds to the tally of the exclusion gate is
\* WarningTally with the words ahead, and the gate is true exactly when
\* the other four families and that tally make 3 or more
WarningRule(ahead) ==
    (Analysed /\ PlainText(CallText)) =>
        /\ FindAllCount(EXCLUSION_PATTERNS[5], RegexFold(CallText))
               = WarningTally(CallText, ahead)
        /\ analysis[1].excluded <=>
               FamilyTally(CallText, 1) + FamilyTally(CallText, 2)
                   + FamilyTally(CallText, 3) + FamilyTally(CallText, 4)
                   + WarningTally(CallText, ahead) >= 3

\* C15 as stated: a warning term counts toward the exclusion tally unless
\* it is followed by "(of) confirmed" or "(of) announced".
C15_ConfirmedOrAnnounced == WarningRule(<<"confirmed", "announced">>)

\* C15: a warning term counts toward the exclusion tally unless it is
\* followed by "(of) confirmed", "(of) announced" or "(of) declared"; so
\* "warns of confirmed" adds 0, and a term followed by anything else adds 1.
C15_WarningLookahead ==
    WarningRule(<<"confirmed", "announced", "declared">>)

C15_Witness ==
    /\ Analysed
    /\ PlainText(CallText)
    /\ \E j \in 1..(Len(Words(CallText)) - 2) :
           SubSeq(Words(CallText), j, j + 2) = <<"warns", "of", "confirmed">>
    /\ WarningTally(CallText, <<"confirmed", "announced", "declared">>) = 0
    /\ FamilyTally(CallText, 1) + FamilyTally(CallText, 3) = 2
    /\ ~analysis[1].excluded

\* the event of the i-th test case
CaseEvent(i) ==
    [title |-> test_cases[i].title, content |-> test_cases[i].content]

\* C16: detect_from_text returns the expected verdict for each of the ten
\* cases of the test harness (yes for cases 1, 3, 5, 6, 8 and 10, no for
\* cases 2, 4, 7 and 9), and run_tests counts no failure.
C16_ReferenceCorpus ==
    /\ [i \in 1..Len(test_cases) |-> test_cases[i].expected]
          = <<"yes", "no", "yes", "no", "yes", "yes", "no", "yes", "no",
              "yes">>
    /\ \A i \in 1..Len(test_cases) :
           (Detected /\ arg = CaseEvent(i))
               => result = test_cases[i].expected
    /\ (Detected /\ arg = CaseEvent(Len(test_cases))) => run_tests

C16_Witness ==
    /\ Detected
    /\ arg = CaseEvent(5)
    /\ result = "yes"
    /\ first.get_detailed_analysis # <<>>

\* the criterion names of an analysis, in order
CriteriaOf(r) ==
    [i \in 1..Len(r.criteria_matches) |-> r.criteria_matches[i].criterion]

InSeq(x, seq) == \E i \in 1..Len(seq) : seq[i] = x

\* the claim as stated: for the Port of Jakarta case both the
\* production_disruption and the infrastructure_failure categories match
\* and the total score is the sum of both weights, 6.0
C17_BothCategories ==
    (Analysed /\ arg = CaseEvent(8)) =>
        /\ analysis[1].result = "yes"
        /\ InSeq("production_disruption", CriteriaOf(analysis[1]))
        /\ InSeq("infrastructure_failure", CriteriaOf(analysis[1]))
        /\ analysis[1].total_score = 60

\* C17 (amended): for the Port of Jakarta case the verdict is "yes";
\* production_disruption is the only category that matches (the text has
\* no keyword of infrastructure_failure), and the total score is its
\* weight, 3.0, above the threshold 2.0.
C17_PortOfJakarta ==
    /\ (Detected /\ arg = CaseEvent(8)) => result = "yes"
    /\ (Analysed /\ arg = CaseEvent(8)) =>
           /\ analysis[1].result = "yes"
           /\ CriteriaOf(analysis[1]) = <<"production_disruption">>
           /\ analysis[1].total_score = 30
           /\ analysis[1].total_score > QualificationThreshold

C17_Witness ==
    /\ Analysed
    /\ arg = CaseEvent(8)
    /\ Len(analysis[1].criteria_matches) = 1
    /\ analysis[1].criteria_matches[1].matched_keywords
          = <<"strike began", "workers' strike">>

\* the two fields batch mode sets
AddedFields == {"negative_high_impact", "processed_at"}

\* what the returned list is to the input list, fields kept being the
\* fields of an input object that the output object must carry unchanged
BatchFrame(kept) ==
    results # <<>> =>
        LET out == results[1]
        IN  /\ Len(out) = Len(events)
            /\ Len(batch_calls) = Len(events)
            /\ \A i \in 1..Len(events) :
                   /\ DOMAIN out[i] = DOMAIN events[i] \cup AddedFields
                   /\ \A k \in kept[i] : out[i][k] = events[i][k]
                   /\ out[i].negative_high_impact \in {"yes", "no"}
                   /\ out[i].negative_high_impact
                         = detect_from_text(batch_calls[i].title,
                                            batch_calls[i].content).result
                   /\ out[i].processed_at \in Timestamps
            /\ Truthy(output_file) => written = results
            /\ ~Truthy(output_file) => written = <<>>

\* the claim as stated: the i-th output object carries every field of the
\* i-th input object unchanged, plus negative_high_impact and processed_at
C18_EveryFieldUnchanged ==
    BatchFrame([i \in 1..Len(events) |-> DOMAIN events[i]])

\* C18 (amended): process_json_file returns, and writes when an output file
\* is given, a list of exactly n objects in the order of the input; the
\* i-th output object carries every field of the i-th input object other
\* than negative_high_impact and processed_at unchanged, and has
\* negative_high_impact, the verdict of detect_from_text for the record's
\* title and selected content, and processed_at, which replace fields of
\* those names.
C18_BatchPreservesSequence ==
    BatchFrame([i \in 1..Len(events) |-> DOMAIN events[i] \ AddedFields])

C18_Witness ==
    /\ results # <<>>
    /\ written = results
    /\ Len(events) = 2
    /\ "url" \in DOMAIN events[1]
    /\ results[1][1].negative_high_impact = "yes"
    /\ "negative_high_impact" \in DOMAIN events[2]
    /\ results[1][2].negative_high_impact = "no"
    /\ results[1][1].processed_at # results[1][2].processed_at

\* the body fields, first priority first
BodyFields == <<"content", "description", "summary">>

\* the positions in BodyFields of the fields of obj that are present and
\* not empty
NonEmptyBodyFields(obj) ==
    {k \in 1..Len(BodyFields) :
        BodyFields[k] \in DOMAIN obj /\ obj[BodyFields[k]] # ""}

FirstNonEmptyBody(obj) ==
    IF NonEmptyBodyFields(obj) = {} THEN ""
    ELSE obj[BodyFields[CHOOSE k \in NonEmptyBodyFields(obj) :
                            \A j \in NonEmptyBodyFields(obj) : k <= j]]

\* C19: for each record of a batch the body given to detect_from_text is
\* the first non-empty field among content, description and summary, and
\* the empty string when none is present or non-empty; a missing title is
\* the empty string; every record gets a verdict.
C19_BatchFieldSelection ==
    results # <<>> =>
        /\ Len(batch_calls) = Len(events)
        /\ Len(results[1]) = Len(events)
        /\ \A i \in 1..Len(events) :
               /\ batch_calls[i].content = FirstNonEmptyBody(events[i])
               /\ "title" \in DOMAIN events[i]
                      => batch_calls[i].title = events[i].title
               /\ "title" \notin DOMAIN events[i]
                      => batch_calls[i].title = ""
               /\ results[1][i].negative_high_impact \in {"yes", "no"}
               /\ (batch_calls[i].title = "" /\ batch_calls[i].content = "")
                      => results[1][i].negative_high_impact = "no"

C19_Witness ==
    /\ results # <<>>
    /\ Len(events) = 2
    /\ "title" \notin DOMAIN events[1]
    /\ "content" \notin DOMAIN events[1]
    /\ results[1][1].negative_high_impact = "yes"
    /\ NonEmptyBodyFields(events[2]) = {2, 3}
    /\ Get(events[2], "content") = ""
    /\ batch_calls[2].content = events[2].description
    /\ results[1][2].negative_high_impact = "yes"

EmptyEvent == [title |-> "", content |-> ""]

\* C20: for title = "" and content = "" the geographic gate fails and the
\* verdict is "no"; the detailed analysis for that input has
\* geographic_match false, an empty criteria_matches and total_score 0.
C20_EmptyText ==
    /\ (Detected /\ arg = EmptyEvent) =>
           /\ result = "no"
           /\ calls = <<"geographic">>
    /\ (Analysed /\ arg = EmptyEvent) =>
           /\ analysis[1].result = "no"
           /\ ~analysis[1].geographic_match
           /\ analysis[1].criteria_matches = <<>>
           /\ analysis[1].total_score = 0

C20_Witness ==
    /\ Analysed
    /\ arg = EmptyEvent
    /\ first.detect_from_text = <<"no">>
    /\ ~analysis[1].geographic_match

\* C21: a run of process_json_file that raises, on text that is not JSON
\* or on a value that is not a list of objects, leaves the output file as
\* it was and returns nothing; the output file changes only in a run that
\* classified every record, and then holds the returned list.
C21_AllOrNothing ==
    [][/\ error' # NoValue => (written' = written /\ results' = <<>>)
       /\ written' # written =>
              /\ error' = NoValue
              /\ input_json = "array"
              /\ Len(batch_calls') = Len(events)
              /\ written' = results']_vars

C21_Witness ==
    /\ error = "AttributeError"
    /\ input_json = "array"
    /\ junk_at = 2
    /\ Len(batch_calls) = 1
    /\ result = "yes"
    /\ Truthy(output_file)
    /\ written = <<PriorOutput>>

\* C22: no step of a call changes the attributes of the shared detector,
\* and whatever steps of other threads come in between, a call returns
\* what the same call returns when it runs alone.
C22_NoSharedMutation ==
    /\ instance = <<>>
    /\ \A t \in Threads :
           threads[t].pc = "done" =>
               IF threads[t].method = "detect_from_text"
               THEN threads[t].ret
                        = <<detect_from_text(threads[t].event.title,
                                threads[t].event.content).result>>
               ELSE threads[t].ret
                        = <<get_detailed_analysis(threads[t].event.title,
                                threads[t].event.content)>>

C22_Witness ==
    /\ threads[1].pc = "done"
    /\ threads[1].interleaved
    /\ threads[1].method = "detect_from_text"
    /\ threads[1].ret = <<"yes">>
    /\ threads[2].pc = "analysis_criteria"
    /\ threads[2].interleaved
    /\ threads[2].event # threads[1].event

\* C23: detect gives an EventContext whose country, is_confirmed or
\* has_material_impact is filled in the verdict it gives the context with
\* the same title and content and the hints left at their defaults.
C23_HintsIgnored ==
    op = "detect" =>
        /\ result = detect(EventContext(arg.title, arg.content)).result
        /\ calls = detect(EventContext(arg.title, arg.content)).calls

C23_Witness ==
    /\ op = "detect"
    /\ arg.country = "Japan"
    /\ arg.is_confirmed
    /\ arg.has_material_impact
    /\ calls = <<"geographic", "confirmed">>
    /\ result = "no"

\* C24: for every text the score of _evaluate_criteria, which leaves a
\* category at its first keyword found, is the total_score of
\* get_detailed_analysis, which collects every keyword found and adds the
\* weight once.
C24_ScorersAgree ==
    /\ Analysed => analysis[1].total_score = _evaluate_criteria(CallText)
    /\ (Detected /\ arg = event /\ criteria_score # NoScore
           /\ first.get_detailed_analysis # <<>>)
          => criteria_score = first.get_detailed_analysis[1].total_score

C24_Witness ==
    /\ Detected
    /\ arg = event
    /\ first.get_detailed_analysis # <<>>
    /\ criteria_score = first.get_detailed_analysis[1].total_score
    /\ criteria_score >= 55
    /\ \E i \in 1..Len(first.get_detailed_analysis[1].criteria_matches) :
           Len(first.get_detailed_analysis[1].criteria_matches[i]
                   .matched_keywords) >= 2

\* the categories a phrase triggers: those that list it, and those that
\* list a keyword the phrase contains
Triggered(phrase) ==
    {c \in 1..Len(CRITERIA_KEYWORDS) :
        \E k \in 1..Len(CRITERIA_KEYWORDS[c].keywords) :
            OccurrencesOf(phrase, CRITERIA_KEYWORDS[c].keywords[k]) # {}}

\* the categories that list the phrase itself
Listing(phrase) ==
    {c \in 1..Len(CRITERIA_KEYWORDS) :
        \E k \in 1..Len(CRITERIA_KEYWORDS[c].keywords) :
            CRITERIA_KEYWORDS[c].keywords[k] = phrase}

PhrasesIn(text) ==
    {f \in OverlapFragments : OccurrencesOf(text, f) # {}}

CategoryNames(cats) == {CRITERIA_KEYWORDS[c].criterion : c \in cats}

\* C25: a keyword phrase adds the weight of every category that lists it
\* and of every category that lists a keyword it contains; "blackout",
\* "port closed", "capital flight", "project cancelled" and "state of
\* emergency declared" are each listed by two categories, and one
\* occurrence of "state of emergency declared" scores 3.5 + 2.5 + 3.5 = 9.5.
C25_CategoriesIndependent ==
    /\ \A f \in OverlapFragments \ {"sovereign default"} :
           Cardinality(Listing(f)) = 2
    /\ Analysed =>
           LET cats == UNION {Triggered(f) : f \in PhrasesIn(CallText)}
           IN  /\ {CriteriaOf(analysis[1])[i] :
                      i \in 1..Len(analysis[1].criteria_matches)}
                     = CategoryNames(cats)
               /\ analysis[1].total_score = WeightSum(cats)
    /\ (Analysed /\ arg.content = "state of emergency declared") =>
           /\ CriteriaOf(analysis[1])
                 = <<"regulatory_political_shock", "natural_disaster",
                     "geopolitical_escalation">>
           /\ analysis[1].total_score = 35 + 25 + 35
    /\ (Detected /\ arg.content = "state of emergency declared"
           /\ criteria_score # NoScore) => criteria_score = 95

C25_Witness ==
    /\ Detected
    /\ arg = event
    /\ arg.content = "state of emergency declared"
    /\ criteria_score = 95
    /\ result = "yes"
    /\ first.get_detailed_analysis # <<>>
    /\ first.get_detailed_analysis[1].total_score = 95

StdinRan == stdin_returned # <<>> \/ cli_error # NoValue

\* C26: for every content of standard input process_stdin returns "yes" or
\* "no" and raises nothing; with two or more lines the first line is the
\* title and the other lines, joined by newlines, are the content; with a
\* single line that is not a JSON object the line is the title and the
\* content is empty.
C26_StdinTotal ==
    StdinRan =>
        LET lines == SplitLines(Strip(stdin))
        IN  /\ cli_error = NoValue
            /\ stdin_returned \in {<<"yes">>, <<"no">>}
            /\ Len(lines) >= 2 =>
                   /\ arg.title = lines[1]
                   /\ arg.content = JoinLines(Tail(lines))
            /\ (Len(lines) = 1 /\ JsonLoads(lines[1]).kind # "object") =>
                   /\ arg.title = lines[1]
                   /\ arg.content = ""

\* C27: for a JSON object with any of the fields title, content,
\* description and summary, process_stdin given the object on one line
\* returns the verdict process_json_file puts in negative_high_impact for
\* a batch that holds this one record.
C27_SameDataContract ==
    (stdin_returned # <<>> /\ results # <<>>) =>
        stdin_returned[1] = results[1][1].negative_high_impact

Supplied(option) == option # <<>>

\* C28: one branch of main runs, chosen in the order --interactive,
\* --stdin, --title with --content, --input, help; whenever --title T and
\* --content C are both supplied without --interactive and --stdin, also
\* with C the empty string, main prints detect_from_text(T, C), or the
\* analysis with --detailed.
C28_ModeDispatch ==
    branch # NoValue =>
        /\ branch =
               IF argv.interactive THEN "interactive"
               ELSE IF argv.stdin THEN "stdin"
               ELSE IF Supplied(argv.title) /\ Supplied(argv.content)
               THEN "single"
               ELSE IF Supplied(argv.input) THEN "input"
               ELSE "help"
        /\ (/\ ~argv.interactive
            /\ ~argv.stdin
            /\ Supplied(argv.title)
            /\ Supplied(argv.content)) =>
               printed =
                   IF argv.detailed
                   THEN <<[kind |-> "json",
                           value |-> get_detailed_analysis(argv.title[1],
                                         argv.content[1])]>>
                   ELSE <<Text(detect_from_text(argv.title[1],
                                   argv.content[1]).result)>>

\* how often the URL u occurs in list
UrlCount(list, u) == Cardinality({i \in 1..Len(list) : UrlOf(list[i]) = u})

\* the articles of list without URL, in order
RECURSIVE WithoutUrl(_)
WithoutUrl(list) ==
    IF list = <<>> THEN <<>>
    ELSE IF UrlOf(Head(list)) = "" THEN <<Head(list)>> \o WithoutUrl(Tail(list))
    ELSE WithoutUrl(Tail(list))

\* save has already returned the path of today's file
SavedToday == \E i \in 1..Len(returned) : returned[i] = Filepath(today)

\* no two entries have the same non-empty URL
SharesNoUrl(list) ==
    \A i, j \in 1..Len(list) :
        (i < j /\ UrlOf(list[i]) # "") => UrlOf(list[i]) # UrlOf(list[j])

\* no two entries are the same article or share a URL
NoDuplicates(list) ==
    \A i, j \in 1..Len(list) :
        i < j => /\ list[i] # list[j]
                 /\ ~(UrlOf(list[i]) # "" /\ UrlOf(list[i]) = UrlOf(list[j]))

AllFailed == \A i \in 1..Len(fetched) : fetched[i] = <<>>

\* the back-off waits after the first n failed attempts
BackOffs(n) == [i \in 1..n |-> delay * i]

\* C30: a call of scrape_article makes at most max_retries attempts and
\* ends; it stops at the first attempt that succeeds and returns its
\* result, returns None exactly when every attempt failed (no attempt is
\* made when max_retries is 0), and waits delay * (attempt + 1) after
\* each failed attempt but the last.
C30_BoundedRetry ==
    /\ [](Len(fetched) <= max_retries)
    /\ [](scrape_pc = "get" =>
              /\ AllFailed
              /\ attempt = Len(fetched)
              /\ Len(fetched) < max_retries
              /\ ~scraped.returned
              /\ slept = BackOffs(Len(fetched)))
    /\ [](scrape_pc = "done" =>
              /\ scraped.returned
              /\ scraped.value = <<>> <=> AllFailed
              /\ AllFailed =>
                     /\ Len(fetched) = max_retries
                     /\ slept = BackOffs(IF max_retries = 0 THEN 0
                                          ELSE max_retries - 1)
              /\ ~AllFailed =>
                     /\ scraped.value = fetched[Len(fetched)]
                     /\ \A i \in 1..Len(fetched) - 1 : fetched[i] = <<>>
                     /\ slept = Append(BackOffs(Len(fetched) - 1), delay))
    /\ (scrape_pc = "get" ~> scrape_pc = "done")

\* with max_retries 3 and delay 2 the third attempt succeeded, after the
\* waits 2 and 4
C30_Witness ==
    /\ scrape_pc = "done"
    /\ max_retries = 3
    /\ delay = 2
    /\ Len(fetched) = 3
    /\ fetched[1] = <<>>
    /\ fetched[2] = <<>>
    /\ scraped.value = fetched[3]
    /\ scraped.value # <<>>
    /\ slept = <<2, 4, 2>>

====
